---- MODULE Spec2Model ----
(***************************************************************************)
(* A model of parts of the wasp WebAssembly toolkit:                       *)
(*   - the text Tokenizer (two-token lookahead over the annotation-        *)
(*     collecting lexer),                                                  *)
(*   - the binary readers that report errors through a context stack       *)
(*     (Read<Limits>, Read<Memory>, Read<CopyImmediate>,                   *)
(*     Read<ElementSegment>),                                              *)
(*   - the hook-based binary reader (ReadVarInt, ReadLimits, ReadExpr,     *)
(*     ReadSection, ReadModule and the section readers),                   *)
(*   - the custom tool (ExtractCustomAnnotations, Tool::Run),              *)
(*   - the text reader's FunctionTypeMap.                                  *)
(* Each part has its own specification over the shared variables; the      *)
(* variables of the other parts stay at their initial values.              *)
(***************************************************************************)
EXTENDS Integers, Sequences, FiniteSets, TLC

VARIABLES
  \* ---- text::Tokenizer fields
  data_,            \* remaining input of the tokenizer (raw located tokens)
  tokens_,          \* the two-slot cache, indexed by 0 and 1
  current_,         \* index of the slot holding the next token
  count_,           \* number of cached tokens
  previous_token_,  \* the token Read returned last
  annots_,          \* the annotation blocks collected so far
  \* ---- observation of the tokenizer's callers
  input,            \* the whole raw input the tokenizer was constructed on
  lexed,            \* number of calls made to the lexer
  readLog,          \* the tokens returned by Read, in order
  lastOp,           \* the last operation called, with its argument
  lastRet,          \* what the last operation returned
  \* ---- binary readers
  orig,             \* the bytes the reader was started on
  data,             \* the remaining bytes (the SpanU8 the readers advance)
  context_stack,    \* TestErrors::context_stack
  errors,           \* TestErrors::errors, or the messages given to hooks.OnError
  result,           \* the value returned by the last read call
  lastCall,         \* the last read call made, with the stack and data before it
  encoded,          \* the integer the input encodes, when the encoder wrote it
  hook_calls,       \* the calls the hook-based readers made to their hooks
  \* ---- the custom tool
  annots,           \* tokenizer.annotations(): the collected annotation blocks
  text_errors,      \* the tool's TextErrors: the messages reported so far
  customs,          \* what ExtractCustomAnnotations returned
  stages_run,       \* the stages Tool::Run has called, in order
  exit_code,        \* what Tool::Run returned
  toolCall,         \* the last call made to the tool, with its inputs
  \* ---- text::FunctionTypeMap
  type_list,        \* the function types of the module's type index space
  deferred_list,    \* the implicitly defined types waiting for EndModule
  ftm_ended,        \* whether EndModule has been called
  ftm_ops,          \* the calls made on the map, in order
  \* ---- the text reader
  source,           \* the tokens of the text a read function is called on
  context,          \* the ReadCtx: features, seen_non_import, the name maps
  read_errors,      \* the errors reported to the context's Errors, in order
  parsed,           \* what the last read function returned
  readCall          \* the last read function called, with the context before it

tokVars == <<data_, tokens_, current_, count_, previous_token_, annots_,
             input, lexed, readLog, lastOp, lastRet>>
binVars == <<orig, data, context_stack, errors, result, lastCall, encoded,
             hook_calls>>
toolVars == <<annots, text_errors, customs, stages_run, exit_code, toolCall>>
ftmVars == <<type_list, deferred_list, ftm_ended, ftm_ops>>
txtVars == <<source, context, read_errors, parsed, readCall>>
vars == <<tokVars, binVars, toolVars, ftmVars, txtVars>>

(***************************************************************************)
(* Bounds of the model.                                                    *)
(***************************************************************************)
MaxTokens == 4      \* longest raw token input of the tokenizer
MaxReads == 3       \* most Read calls followed on one tokenizer
MaxCont == 10       \* most continuation bytes at the start of a raw LEB128 input
MaxExtra == 1       \* most bytes that follow an encoded integer in the input
MaxBytes == 3       \* longest input of the context-reporting readers
MaxDepth == 1       \* most context frames a caller holds around a read
MaxExprLen == 4     \* longest input of ReadExpr
MaxStop == 2        \* latest hook call of one read that may answer Stop
MaxBody == 5        \* most bytes that follow the header of a module
MaxPayload == 4     \* longest payload given to a section reader
MaxClause == 2      \* most tokens inside the parentheses of a placement clause
MaxData == 2        \* most tokens between the placement clause and the closing parenthesis
MaxAnnots == 3      \* most annotation blocks in one source
MaxOps == 4         \* most calls made on one FunctionTypeMap
MaxItems == 2       \* most module items read with one context
MaxBinders == 2     \* most (param ..) and (local ..) groups of one function
MaxTexts == 2       \* most strings of one inline data segment
MaxNodes == 2       \* most instructions and block forms of one folded expression

(***************************************************************************)
(* Text tokenizer.                                                         *)
(***************************************************************************)
RawTypes == {"Lpar", "Rpar", "LparAnn", "Func"}
MatchTypes == {"Lpar", "Func", "Eof"}

NoToken == [type |-> "none", loc |-> 0]
EofToken == [type |-> "Eof", loc |-> 0]
nullopt == [type |-> "nullopt", loc |-> 0]

Locate(s) == [i \in 1..Len(s) |-> [type |-> s[i], loc |-> i]]

\* Number of tokens of the annotation block that starts at d[1] (an LparAnn):
\* up to and including the matching Rpar, or the whole of d if none matches.
RECURSIVE AnnotLen(_, _, _)
AnnotLen(d, pos, depth) ==
  IF pos > Len(d) THEN Len(d)
  ELSE IF d[pos].type \in {"Lpar", "LparAnn"} THEN AnnotLen(d, pos + 1, depth + 1)
  ELSE IF d[pos].type = "Rpar"
       THEN IF depth = 1 THEN pos ELSE AnnotLen(d, pos + 1, depth - 1)
  ELSE AnnotLen(d, pos + 1, depth)

\* LexNoWhitespace: the next raw token, or Eof on empty input.
LexNoWhitespace(d) ==
  IF Len(d) = 0 THEN [tok |-> EofToken, data |-> d]
  ELSE [tok |-> d[1], data |-> Tail(d)]

\* LexNoWhitespaceCollectAnnots: the next token outside annotation blocks,
\* with the annotation blocks skipped on the way, each with its opening
\* LparAnn and its closing Rpar.
RECURSIVE LexCollect(_, _)
LexCollect(d, acc) ==
  LET l == LexNoWhitespace(d) IN
    IF l.tok.type = "LparAnn"
    THEN LET n == AnnotLen(d, 2, 1) IN
           LexCollect(SubSeq(d, n + 1, Len(d)), Append(acc, SubSeq(d, 1, n)))
    ELSE [tok |-> l.tok, annots |-> acc, data |-> l.data]

LexNoWhitespaceCollectAnnots(d) == LexCollect(d, <<>>)

\* The tokenizer object as one record.
Self == [data_ |-> data_, tokens_ |-> tokens_, current_ |-> current_,
         count_ |-> count_, previous_token_ |-> previous_token_,
         annots_ |-> annots_, lexed |-> lexed]

\* LET without sharing: Body applied to the value v.
With(v, Body(_)) == Body(v)

\* One call of the lexer on the tokenizer's data_, annotations appended.
LexStep(t) ==
  With(LexNoWhitespaceCollectAnnots(t.data_), LAMBDA l :
    [cur |-> l.tok,
     t |-> [t EXCEPT !.data_ = l.data, !.annots_ = t.annots_ \o l.annots,
                     !.lexed = t.lexed + 1]])

\* Mutant of TokRead: the uncached path drops the collected annotations.
TokRead_DropAnnots(t) ==
  IF t.count_ = 0
  THEN With(LexStep(t), LAMBDA l :
         [t |-> [l.t EXCEPT !.previous_token_ = l.cur, !.annots_ = t.annots_],
          ret |-> l.cur])
  ELSE [t |-> [t EXCEPT !.previous_token_ = t.tokens_[t.current_],
                        !.current_ = 1 - t.current_,
                        !.count_ = t.count_ - 1],
        ret |-> t.tokens_[t.current_]]

\* Mutant of TokRead: the cached path forgets to flip current_.
TokRead_NoFlip(t) ==
  IF t.count_ = 0
  THEN With(LexStep(t), LAMBDA l :
         [t |-> [l.t EXCEPT !.previous_token_ = l.cur], ret |-> l.cur])
  ELSE [t |-> [t EXCEPT !.previous_token_ = t.tokens_[t.current_],
                        !.count_ = t.count_ - 1],
        ret |-> t.tokens_[t.current_]]

\* Tokenizer::Read
TokRead(t) ==
  IF t.count_ = 0
  THEN With(LexStep(t), LAMBDA l :
         [t |-> [l.t EXCEPT !.previous_token_ = l.cur], ret |-> l.cur])
  ELSE [t |-> [t EXCEPT !.previous_token_ = t.tokens_[t.current_],
                        !.current_ = 1 - t.current_,
                        !.count_ = t.count_ - 1],
        ret |-> t.tokens_[t.current_]]

\* The first half of Peek: fill the current slot when the cache is empty.
PeekFill0(t) ==
  IF t.count_ = 0
  THEN With(LexStep(t), LAMBDA l :
         [l.t EXCEPT !.tokens_ = [t.tokens_ EXCEPT ![t.current_] = l.cur],
                     !.count_ = t.count_ + 1])
  ELSE t

\* The second half of Peek(1): fill the other slot from the lexer.
PeekFill1(t0) ==
  With(LexStep(t0), LAMBDA l :
    [l.t EXCEPT !.tokens_ = [t0.tokens_ EXCEPT ![1 - t0.current_] = l.cur],
                !.count_ = t0.count_ + 1])

\* The token Peek(at) returns from the filled cache.
PeekAt(t, at) ==
  [t |-> t, ret |-> t.tokens_[IF at = 0 THEN t.current_ ELSE 1 - t.current_]]

\* Mutant of TokPeek: Peek(1) lexes another token whenever it is called.
TokPeek_AlwaysLex(t, at) ==
  With(PeekFill0(t), LAMBDA t0 :
    IF at = 0 THEN PeekAt(t0, 0) ELSE PeekAt(PeekFill1(t0), 1))

\* Tokenizer::Peek
TokPeek(t, at) ==
  With(PeekFill0(t), LAMBDA t0 :
    IF at = 0 THEN PeekAt(t0, 0)
    ELSE PeekAt(IF t0.count_ = 1 THEN PeekFill1(t0) ELSE t0, 1))

\* The Read that follows a successful match.
MatchRead(r) == [t |-> r.t, ret |-> r.ret, reads |-> <<r.ret>>]

\* Mutant of TokMatch: a failed match still consumes the token.
TokMatch_Consume(t, token_type) ==
  With(TokPeek(t, 0), LAMBDA p :
    IF p.ret.type # token_type
    THEN [t |-> TokRead(p.t).t, ret |-> nullopt, reads |-> <<>>]
    ELSE MatchRead(TokRead(p.t)))

\* Tokenizer::Match; reads lists the tokens its Read calls returned.
TokMatch(t, token_type) ==
  With(TokPeek(t, 0), LAMBDA p :
    IF p.ret.type # token_type
    THEN [t |-> p.t, ret |-> nullopt, reads |-> <<>>]
    ELSE MatchRead(TokRead(p.t)))

\* The two Reads that follow a successful MatchLpar.
MatchLparRead(r1) ==
  With(TokRead(r1.t), LAMBDA r2 :
    [t |-> r2.t, ret |-> r2.ret, reads |-> <<r1.ret, r2.ret>>])

\* Tokenizer::MatchLpar; Peek(1) is evaluated only when Peek(0) is an Lpar.
TokMatchLpar(t, token_type) ==
  With(TokPeek(t, 0), LAMBDA p0 :
    IF p0.ret.type # "Lpar"
    THEN [t |-> p0.t, ret |-> nullopt, reads |-> <<>>]
    ELSE With(TokPeek(p0.t, 1), LAMBDA p1 :
           IF p1.ret.type # token_type
           THEN [t |-> p1.t, ret |-> nullopt, reads |-> <<>>]
           ELSE MatchLparRead(TokRead(p1.t))))

SetSelf(t) ==
  /\ data_' = t.data_
  /\ tokens_' = t.tokens_
  /\ current_' = t.current_
  /\ count_' = t.count_
  /\ previous_token_' = t.previous_token_
  /\ annots_' = t.annots_
  /\ lexed' = t.lexed

TokIdle ==
  /\ data_ = <<>>
  /\ tokens_ = [i \in {0, 1} |-> NoToken]
  /\ current_ = 0
  /\ count_ = 0
  /\ previous_token_ = NoToken
  /\ annots_ = <<>>
  /\ input = <<>>
  /\ lexed = 0
  /\ readLog = <<>>
  /\ lastOp = <<"new">>
  /\ lastRet = nullopt

BinIdle ==
  /\ orig = <<>>
  /\ data = <<>>
  /\ context_stack = <<>>
  /\ errors = <<>>
  /\ result = [ok |-> FALSE, err |-> "none"]
  /\ lastCall = [op |-> "new"]
  /\ encoded = [kind |-> "raw"]
  /\ hook_calls = <<>>

TxtIdle ==
  /\ source = <<>>
  /\ context = [op |-> "new"]
  /\ read_errors = <<>>
  /\ parsed = <<>>
  /\ readCall = [op |-> "new"]

FtmIdle ==
  /\ type_list = <<>>
  /\ deferred_list = <<>>
  /\ ftm_ended = FALSE
  /\ ftm_ops = <<>>

ToolIdle ==
  /\ annots = <<>>
  /\ text_errors = <<>>
  /\ customs = <<>>
  /\ stages_run = <<>>
  /\ exit_code = -1
  /\ toolCall = [op |-> "new"]

\* Tokenizer::Tokenizer(SpanU8 data) on any raw input of at most MaxTokens tokens.
RawInputs == UNION {[1..n -> RawTypes] : n \in 0..MaxTokens}

InitTok ==
  /\ \E s \in RawInputs : /\ input = Locate(s)
                         /\ data_ = Locate(s)
  /\ tokens_ = [i \in {0, 1} |-> NoToken]
  /\ current_ = 0
  /\ count_ = 0
  /\ previous_token_ = NoToken
  /\ annots_ = <<>>
  /\ lexed = 0
  /\ readLog = <<>>
  /\ lastOp = <<"new">>
  /\ lastRet = nullopt
  /\ BinIdle
  /\ ToolIdle
  /\ FtmIdle
  /\ TxtIdle

Read ==
  /\ Len(readLog) < MaxReads
  /\ LET r == TokRead(Self) IN
       /\ SetSelf(r.t)
       /\ readLog' = Append(readLog, r.ret)
       /\ lastRet' = r.ret
  /\ lastOp' = <<"Read">>
  /\ UNCHANGED <<input, binVars, toolVars, ftmVars, txtVars>>

Peek ==
  \E at \in {0, 1} :
    /\ LET r == TokPeek(Self, at) IN
         /\ SetSelf(r.t)
         /\ lastRet' = r.ret
    /\ lastOp' = <<"Peek", at>>
    /\ UNCHANGED <<input, readLog, binVars, toolVars, ftmVars, txtVars>>

Match ==
  \E token_type \in MatchTypes :
    /\ Len(readLog) < MaxReads
    /\ LET r == TokMatch(Self, token_type) IN
         /\ SetSelf(r.t)
         /\ readLog' = readLog \o r.reads
         /\ lastRet' = r.ret
    /\ lastOp' = <<"Match", token_type>>
    /\ UNCHANGED <<input, binVars, toolVars, ftmVars, txtVars>>

MatchLpar ==
  \E token_type \in MatchTypes :
    /\ Len(readLog) + 1 < MaxReads
    /\ LET r == TokMatchLpar(Self, token_type) IN
         /\ SetSelf(r.t)
         /\ readLog' = readLog \o r.reads
         /\ lastRet' = r.ret
    /\ lastOp' = <<"MatchLpar", token_type>>
    /\ UNCHANGED <<input, binVars, toolVars, ftmVars, txtVars>>

NextTok == Read \/ Peek \/ Match \/ MatchLpar

SpecTok == InitTok /\ [][NextTok]_vars

(***************************************************************************)
(* Tokenizer claims.                                                       *)
(***************************************************************************)
\* The first n tokens the lexer yields on d, called again and again.
RECURSIVE LexStream(_, _)
LexStream(d, n) ==
  IF n = 0 THEN <<>>
  ELSE LET l == LexNoWhitespaceCollectAnnots(d) IN
         <<l.tok>> \o LexStream(l.data, n - 1)

\* The next n tokens that Read calls would return from tokenizer state t.
RECURSIVE Upcoming(_, _)
Upcoming(t, n) ==
  IF n = 0 THEN <<>>
  ELSE LET r == TokRead(t) IN <<r.ret>> \o Upcoming(r.t, n - 1)

\* The annotation blocks of a raw input, in source order.
RECURSIVE AllAnnots(_)
AllAnnots(d) ==
  IF Len(d) = 0 THEN <<>>
  ELSE IF d[1].type = "LparAnn"
       THEN LET n == AnnotLen(d, 2, 1) IN
              <<SubSeq(d, 1, n)>> \o AllAnnots(SubSeq(d, n + 1, Len(d)))
  ELSE AllAnnots(Tail(d))

AnnotLocs ==
  LET all == AllAnnots(input) IN
    UNION {{all[k][i].loc : i \in 1..Len(all[k])} : k \in 1..Len(all)}

\* C1: for every input and every interleaving of Read, Peek(0), Peek(1),
\* Match and MatchLpar, the tokens returned by Read are exactly the tokens the
\* lexer yields on the input, in order, none skipped, repeated or reordered;
\* Peek(0) returns the token the next Read returns and Peek(1) the token the
\* Read after that returns.
C1_ReadsFollowLexer ==
  /\ readLog = LexStream(input, Len(readLog))
  /\ lastOp[1] = "Peek" =>
       LET n == Len(readLog) + 1 + lastOp[2] IN
         /\ lastRet = LexStream(input, n)[n]
         /\ lastRet = Upcoming(Self, 1 + lastOp[2])[1 + lastOp[2]]

C1_Witness ==
  /\ lastOp = <<"Peek", 1>>
  /\ Len(readLog) >= 1
  /\ readLog[1].type = "Lpar"
  /\ tokens_[current_].type = "Func"
  /\ lastRet.type = "Eof"
  /\ annots_ # <<>>

\* C2: in every reachable state of a Tokenizer the number of cached tokens
\* count_ is 0, 1 or 2, and the lexer has been advanced at most two tokens
\* past the last token returned by Read.
C2_AtMostTwoCached ==
  /\ count_ \in {0, 1, 2}
  /\ lexed - Len(readLog) = count_
  /\ lexed - Len(readLog) <= 2

C2_Witness ==
  /\ count_ = 2
  /\ Len(readLog) >= 1
  /\ lastOp[1] = "Match"
  /\ lastRet = nullopt

\* C3: a failed Match or MatchLpar returns none and consumes nothing (the
\* tokens Read returns afterwards are those it would have returned without
\* the call); a successful Match consumes exactly one token and a successful
\* MatchLpar exactly two, never only the Lpar.
C3_MatchFrame ==
  [][ /\ lastOp'[1] = "Match" =>
           LET nxt == Upcoming(Self, 3) IN
             IF nxt[1].type # lastOp'[2]
             THEN /\ lastRet' = nullopt
                  /\ readLog' = readLog
                  /\ Upcoming(Self', 3) = nxt
             ELSE /\ lastRet' = nxt[1]
                  /\ readLog' = Append(readLog, nxt[1])
                  /\ Upcoming(Self', 2) = SubSeq(nxt, 2, 3)
      /\ lastOp'[1] = "MatchLpar" =>
           LET nxt == Upcoming(Self, 4) IN
             IF ~(nxt[1].type = "Lpar" /\ nxt[2].type = lastOp'[2])
             THEN /\ lastRet' = nullopt
                  /\ readLog' = readLog
                  /\ Upcoming(Self', 4) = nxt
             ELSE /\ lastRet' = nxt[2]
                  /\ readLog' = readLog \o SubSeq(nxt, 1, 2)
                  /\ Upcoming(Self', 2) = SubSeq(nxt, 3, 4)
    ]_vars

C3_Witness ==
  /\ lastOp = <<"MatchLpar", "Func">>
  /\ lastRet = nullopt
  /\ count_ = 2
  /\ tokens_[current_].type = "Lpar"
  /\ tokens_[1 - current_].type = "Rpar"
  /\ Len(readLog) >= 1

\* C4: no token inside an annotation block is returned by Read, Peek, Match
\* or MatchLpar; every annotation block lexed so far is in annotations()
\* exactly once, and the blocks are there in source order, however the calls
\* were interleaved.
C4_AnnotationsCollected ==
  /\ lastRet.loc \notin AnnotLocs
  /\ \A i \in 1..Len(readLog) : readLog[i].loc \notin AnnotLocs
  /\ \A i \in {0, 1} : tokens_[i].loc \notin AnnotLocs
  /\ annots_ = SelectSeq(AllAnnots(input),
                         LAMBDA b : b[1].loc <= Len(input) - Len(data_))

C4_Witness ==
  /\ Len(annots_) = 2
  /\ lastOp = <<"Peek", 1>>
  /\ tokens_[current_].type = "Func"
  /\ Len(readLog) = 0

(***************************************************************************)
(* Bytes and fixed-width integers.  An integer of width W is the sequence  *)
(* of its W bits, least significant first, so that 32-bit and 64-bit       *)
(* values keep their width.                                                *)
(***************************************************************************)
Pow2(k) == 2 ^ k
Bit(b, k) == (b \div Pow2(k)) % 2
BitAnd(a, b) ==
  LET f[k \in 0..8] == IF k = 8 THEN 0
                       ELSE Bit(a, k) * Bit(b, k) * Pow2(k) + f[k + 1]
  IN f[0]
BitNot8(a) == 255 - a

BvZero(W) == [j \in 1..W |-> 0]
\* result | (U(b) << shift), in width W: bits shifted past W - 1 are lost.
BvOrShl(x, b, shift) ==
  [j \in 1..Len(x) |->
     IF j - 1 >= shift /\ j - 1 - shift < 8 /\ Bit(b, j - 1 - shift) = 1
     THEN 1 ELSE x[j]]

\* SignExtend<S>(x, N): bit N is copied into every higher bit.
SignExtend(x, N) == [j \in 1..Len(x) |-> IF j - 1 > N THEN x[N + 1] ELSE x[j]]

\* ReadU8
ReadU8(d) ==
  IF Len(d) < 1 THEN [ok |-> FALSE, err |-> "nullopt", data |-> d]
  ELSE [ok |-> TRUE, val |-> d[1], data |-> Tail(d)]

\* The compile-time constants of ReadVarInt<T>, T of W bits.
kMaxBytes(W) == (W + 6) \div 7
kUsedBitsInLastByte(W) == W - 7 * (kMaxBytes(W) - 1)
kMaskBits(W, is_signed) == kUsedBitsInLastByte(W) - (IF is_signed THEN 1 ELSE 0)
kMask(W, is_signed) == BitNot8(Pow2(kMaskBits(W, is_signed)) - 1)
kOnes(W, is_signed) == BitAnd(kMask(W, is_signed), 127)

\* Mutant of ReadVarIntLoop: the last byte is accepted whatever its unused bits.
RECURSIVE ReadVarIntLoop_NoMask(_, _, _, _, _)
ReadVarIntLoop_NoMask(d, i, res, W, is_signed) ==
  LET opt == ReadU8(d) IN
    IF ~opt.ok THEN [ok |-> FALSE, err |-> "nullopt", data |-> opt.data]
    ELSE LET byte == opt.val
             shift == i * 7
             r == BvOrShl(res, BitAnd(byte, 127), shift)
         IN IF i + 1 = kMaxBytes(W)
            THEN [ok |-> TRUE, val |-> r, data |-> opt.data]
            ELSE IF BitAnd(byte, 128) = 0
            THEN [ok |-> TRUE,
                  val |-> IF is_signed THEN SignExtend(r, 6 + shift) ELSE r,
                  data |-> opt.data]
            ELSE ReadVarIntLoop_NoMask(opt.data, i + 1, r, W, is_signed)

\* Mutant of ReadVarIntLoop: a short signed value is not sign-extended.
RECURSIVE ReadVarIntLoop_NoSignExtend(_, _, _, _, _)
ReadVarIntLoop_NoSignExtend(d, i, res, W, is_signed) ==
  LET opt == ReadU8(d) IN
    IF ~opt.ok THEN [ok |-> FALSE, err |-> "nullopt", data |-> opt.data]
    ELSE LET byte == opt.val
             shift == i * 7
             r == BvOrShl(res, BitAnd(byte, 127), shift)
         IN IF i + 1 = kMaxBytes(W)
            THEN IF \/ BitAnd(byte, kMask(W, is_signed)) = 0
                    \/ (is_signed /\ BitAnd(byte, kMask(W, is_signed))
                                       = kOnes(W, is_signed))
                 THEN [ok |-> TRUE, val |-> r, data |-> opt.data]
                 ELSE [ok |-> FALSE, err |-> "nullopt", data |-> opt.data]
            ELSE IF BitAnd(byte, 128) = 0
            THEN [ok |-> TRUE, val |-> r, data |-> opt.data]
            ELSE ReadVarIntLoop_NoSignExtend(opt.data, i + 1, r, W, is_signed)

\* Mutant of ReadVarIntLoop: an invalid last byte is reported with a kind of
\* its own.
RECURSIVE ReadVarIntLoop_Kinds(_, _, _, _, _)
ReadVarIntLoop_Kinds(d, i, res, W, is_signed) ==
  LET opt == ReadU8(d) IN
    IF ~opt.ok THEN [ok |-> FALSE, err |-> "UnexpectedEnd", data |-> opt.data]
    ELSE LET byte == opt.val
             shift == i * 7
             r == BvOrShl(res, BitAnd(byte, 127), shift)
         IN IF i + 1 = kMaxBytes(W)
            THEN IF \/ BitAnd(byte, kMask(W, is_signed)) = 0
                    \/ (is_signed /\ BitAnd(byte, kMask(W, is_signed))
                                       = kOnes(W, is_signed))
                 THEN [ok |-> TRUE, val |-> r, data |-> opt.data]
                 ELSE [ok |-> FALSE, err |-> "IntegerTooLarge", data |-> opt.data]
            ELSE IF BitAnd(byte, 128) = 0
            THEN [ok |-> TRUE,
                  val |-> IF is_signed THEN SignExtend(r, 6 + shift) ELSE r,
                  data |-> opt.data]
            ELSE ReadVarIntLoop_Kinds(opt.data, i + 1, r, W, is_signed)

\* The loop of ReadVarInt<T>: i bytes read so far, res the bits gathered.
\* Both failures (WASP_READ on ReadU8, and the check of the last byte) return
\* absl::nullopt.
RECURSIVE ReadVarIntLoop(_, _, _, _, _)
ReadVarIntLoop(d, i, res, W, is_signed) ==
  LET opt == ReadU8(d) IN
    IF ~opt.ok THEN [ok |-> FALSE, err |-> "nullopt", data |-> opt.data]
    ELSE LET byte == opt.val
             shift == i * 7
             r == BvOrShl(res, BitAnd(byte, 127), shift)
         IN IF i + 1 = kMaxBytes(W)
            THEN IF \/ BitAnd(byte, kMask(W, is_signed)) = 0
                    \/ (is_signed /\ BitAnd(byte, kMask(W, is_signed))
                                       = kOnes(W, is_signed))
                 THEN [ok |-> TRUE, val |-> r, data |-> opt.data]
                 ELSE [ok |-> FALSE, err |-> "nullopt", data |-> opt.data]
            ELSE IF BitAnd(byte, 128) = 0
            THEN [ok |-> TRUE,
                  val |-> IF is_signed THEN SignExtend(r, 6 + shift) ELSE r,
                  data |-> opt.data]
            ELSE ReadVarIntLoop(opt.data, i + 1, r, W, is_signed)

\* ReadVarInt<T>
ReadVarInt(d, W, is_signed) == ReadVarIntLoop(d, 0, BvZero(W), W, is_signed)

ReadVarU32(d) == ReadVarInt(d, 32, FALSE)
ReadVarS32(d) == ReadVarInt(d, 32, TRUE)
ReadVarS64(d) == ReadVarInt(d, 64, TRUE)

(***************************************************************************)
(* The LEB128 encoder: the minimal sequence, continuation bit on all but   *)
(* the last byte.                                                          *)
(***************************************************************************)
Low7(x) ==
  LET f[k \in 0..7] == IF k = 7 THEN 0 ELSE x[k + 1] * Pow2(k) + f[k + 1]
  IN f[0]
\* x >> 7, filling with bit `fill`.
Shr7(x, fill) == [j \in 1..Len(x) |-> IF j + 7 <= Len(x) THEN x[j + 7] ELSE fill]

RECURSIVE WriteVarInt(_, _)
WriteVarInt(x, is_signed) ==
  LET byte == Low7(x)
      sign == IF is_signed THEN x[Len(x)] ELSE 0
      rest == Shr7(x, sign)
      done == IF is_signed
              THEN \/ (rest = BvZero(Len(x)) /\ Bit(byte, 6) = 0)
                   \/ (rest = [j \in 1..Len(x) |-> 1] /\ Bit(byte, 6) = 1)
              ELSE rest = BvZero(Len(x))
  IN IF done THEN <<byte>> ELSE <<byte + 128>> \o WriteVarInt(rest, is_signed)

(***************************************************************************)
(* Inputs of the LEB128 readers.                                           *)
(***************************************************************************)
IntTypes == {[W |-> 32, is_signed |-> FALSE], [W |-> 32, is_signed |-> TRUE],
             [W |-> 64, is_signed |-> TRUE]}

\* Bit patterns of width W at and around every power of two, and mixed ones.
BvOnes(W, k) == [j \in 1..W |-> IF j <= k THEN 1 ELSE 0]
BvPow(W, k) == [j \in 1..W |-> IF j = k + 1 THEN 1 ELSE 0]
BvNot(x) == [j \in 1..Len(x) |-> 1 - x[j]]
BvAlt(W, k) == [j \in 1..W |-> IF j <= k THEN j % 2 ELSE 0]
BvValues(W) ==
  UNION {{BvOnes(W, k), BvPow(W, k), BvNot(BvOnes(W, k)), BvNot(BvPow(W, k)),
          BvAlt(W, k), BvNot(BvAlt(W, k))} : k \in 0..(W - 1)}

ContBytes == {128, 255}
LastBytes == {0, 1, 7, 8, 15, 16, 63, 64, 112, 120, 127, 128}
ExtraBytes == {0, 255}
Extras == UNION {[1..n -> ExtraBytes] : n \in 0..MaxExtra}

\* Raw inputs: n equal continuation bytes, one more byte, and what follows.
RawLebInputs ==
  {[j \in 1..n |-> c] \o <<l>> \o e :
     <<n, c, l, e>> \in (0..MaxCont) \X ContBytes \X LastBytes \X Extras}
  \cup {<<>>}

InitLeb ==
  /\ TokIdle
  /\ ToolIdle
  /\ FtmIdle
  /\ TxtIdle
  /\ \/ /\ orig \in RawLebInputs
        /\ encoded = [kind |-> "raw"]
     \/ \E t \in IntTypes : \E x \in BvValues(t.W) : \E e \in Extras :
          /\ orig = WriteVarInt(x, t.is_signed) \o e
          /\ encoded = [kind |-> "enc", type |-> t, val |-> x]
  /\ data = orig
  /\ context_stack = <<>>
  /\ errors = <<>>
  /\ result = [ok |-> FALSE, err |-> "none"]
  /\ lastCall = [op |-> "new"]
  /\ hook_calls = <<>>

\* A call of ReadVarU32, ReadVarS32 or ReadVarS64 on the remaining input.
CallReadVarInt(t) ==
  /\ data # <<>> \/ lastCall.op = "new"
  /\ LET r == ReadVarInt(data, t.W, t.is_signed) IN
       /\ result' = IF r.ok THEN [ok |-> TRUE, val |-> r.val]
                    ELSE [ok |-> FALSE, err |-> r.err]
       /\ data' = r.data
  /\ lastCall' = [op |-> "ReadVarInt", type |-> t, data |-> data]
  /\ UNCHANGED <<orig, context_stack, errors, encoded, hook_calls, tokVars, toolVars, ftmVars, txtVars>>

CallReadVarU32 == CallReadVarInt([W |-> 32, is_signed |-> FALSE])
CallReadVarS32 == CallReadVarInt([W |-> 32, is_signed |-> TRUE])
CallReadVarS64 == CallReadVarInt([W |-> 64, is_signed |-> TRUE])

NextLeb == CallReadVarU32 \/ CallReadVarS32 \/ CallReadVarS64

SpecLeb == InitLeb /\ [][NextLeb]_vars

(***************************************************************************)
(* LEB128 claims.  They speak of the state after a call of ReadVarInt<T>:  *)
(* lastCall.data is the input of the call, data what it left.              *)
(***************************************************************************)
AfterVarInt == lastCall.op = "ReadVarInt"
Consumed == Len(lastCall.data) - Len(data)
ConsumedBytes == SubSeq(lastCall.data, 1, Consumed)
\* K = ceil((W + 6) / 7) for the widths read.
ClaimK(W) == IF W = 32 THEN 5 ELSE 10

\* The K-th byte b ends a valid encoding of width W: no continuation bit,
\* and the bits beyond the width all zero (with a clear sign bit when signed)
\* or, when signed, all one together with the sign bit.
ValidLastByte(b, W, is_signed) ==
  LET used == W - 7 * (ClaimK(W) - 1)
      beyond == used..6
      signbit == Bit(b, used - 1)
  IN /\ Bit(b, 7) = 0
     /\ \/ /\ \A k \in beyond : Bit(b, k) = 0
           /\ is_signed => signbit = 0
        \/ /\ is_signed
           /\ \A k \in beyond : Bit(b, k) = 1
           /\ signbit = 1

\* C8: the LEB128 decoder for width W never consumes more than
\* K = ceil((W+6)/7) bytes; when the K-th byte is reached the decode succeeds
\* only if its continuation bit is clear and its bits beyond width W are all
\* zero (unsigned, or non-negative signed) or, for signed targets, all one
\* together with the sign bit; otherwise the decode fails.
C8_LastByteChecked ==
  AfterVarInt =>
    LET W == lastCall.type.W
        K == ClaimK(W)
    IN /\ Consumed <= K
       /\ Consumed = K =>
            (result.ok <=> ValidLastByte(lastCall.data[K], W,
                                         lastCall.type.is_signed))

C8_Witness ==
  /\ AfterVarInt
  /\ lastCall.type = [W |-> 64, is_signed |-> TRUE]
  /\ Consumed = 10
  /\ lastCall.data[10] = 127
  /\ result.ok
  /\ data # <<>>

\* An encoding is minimal when dropping its last byte would change the value.
IsMinimal(b, is_signed) ==
  LET n == Len(b) IN
    \/ n = 1
    \/ /\ n > 1
       /\ IF is_signed
          THEN /\ ~(b[n] = 0 /\ Bit(b[n - 1], 6) = 0)
               /\ ~(b[n] = 127 /\ Bit(b[n - 1], 6) = 1)
          ELSE b[n] # 0

\* C9: LEB128 round trip.  Decoding the minimal encoding of an integer n of
\* the target type (u32, s32, s64) returns n, sign-extended for signed
\* targets, and consumes exactly the bytes of the encoding; and re-encoding
\* the value decoded from a minimal encoding b gives b.
C9_RoundTrip ==
  AfterVarInt =>
    /\ ( /\ encoded.kind = "enc"
         /\ encoded.type = lastCall.type
         /\ lastCall.data = orig )
       => /\ result.ok
          /\ result.val = encoded.val
          /\ ConsumedBytes = WriteVarInt(encoded.val, encoded.type.is_signed)
    /\ (result.ok /\ IsMinimal(ConsumedBytes, lastCall.type.is_signed))
       => WriteVarInt(result.val, lastCall.type.is_signed) = ConsumedBytes
    /\ (result.ok /\ ~IsMinimal(ConsumedBytes, lastCall.type.is_signed))
       => WriteVarInt(result.val, lastCall.type.is_signed) # ConsumedBytes

C9_Witness ==
  /\ AfterVarInt
  /\ encoded.kind = "enc"
  /\ encoded.type = [W |-> 64, is_signed |-> TRUE]
  /\ lastCall.type = encoded.type
  /\ lastCall.data = orig
  /\ encoded.val[64] = 1
  /\ encoded.val[1] = 0
  /\ Consumed \in 2..9
  /\ result.ok

\* The input of the call ends before a byte without continuation bit.
Truncated ==
  /\ Len(lastCall.data) < ClaimK(lastCall.type.W)
  /\ \A i \in 1..Len(lastCall.data) : Bit(lastCall.data[i], 7) = 1
\* The input of the call is a full-length encoding with an invalid last byte.
TooLarge ==
  LET K == ClaimK(lastCall.type.W) IN
    /\ Len(lastCall.data) >= K
    /\ \A i \in 1..(K - 1) : Bit(lastCall.data[i], 7) = 1
    /\ ~ValidLastByte(lastCall.data[K], lastCall.type.W, lastCall.type.is_signed)

Flags_NoMax == 0
Flags_HasMax == 1
Opcode_End == 11
Opcode_GlobalGet == 35
Opcode_I32Const == 65

Pos(st) == st.n - Len(st.data)

\* TestErrors::HandlePushContext, HandlePopContext and HandleOnError.
PushContext(st, desc) ==
  [st EXCEPT !.stack = Append(@, [pos |-> Pos(st), desc |-> desc])]
PopContext(st) == [st EXCEPT !.stack = SubSeq(@, 1, Len(@) - 1)]
OnError(st, message) ==
  [st EXCEPT !.errors =
     Append(@, st.stack \o <<[pos |-> Pos(st), desc |-> message]>>)]

Ok(st, v) == [st |-> st, ok |-> TRUE, val |-> v]
Fail(st) == [st |-> st, ok |-> FALSE, val |-> <<>>]

\* WASP_TRY_READ_CONTEXT(var, call, desc): an ErrorsContextGuard around the
\* call, released by PopContext on success and by the destructor on return.
TryReadContext(st, desc, Call(_)) ==
  With(Call(PushContext(st, desc)), LAMBDA r :
    [r EXCEPT !.st = PopContext(r.st)])

\* Read<u8>
Read_u8(st) ==
  IF Len(st.data) < 1 THEN Fail(OnError(st, "Unable to read u8"))
  ELSE Ok([st EXCEPT !.data = Tail(@)], st.data[1])

\* Read<u32> and Read<s32>: the LEB128 decoder, a failure reported where
\* the decoder stopped.
ReadVar(st, W, is_signed, name) ==
  With(ReadVarInt(st.data, W, is_signed), LAMBDA r :
    IF r.ok THEN Ok([st EXCEPT !.data = r.data], r.val)
    ELSE IF Len(st.data) - Len(r.data) < kMaxBytes(W)
    THEN Fail(OnError([st EXCEPT !.data = r.data], "Unable to read u8"))
    ELSE Fail(OnError([st EXCEPT !.data = r.data], "Invalid " \o name)))
Read_u32(st) == ReadVar(st, 32, FALSE, "u32")
Read_s32(st) == ReadVar(st, 32, TRUE, "s32")

\* Mutant of Read_Limits: the path of an invalid flags value leaves the
\* "limits" frame on the stack.
Read_Limits_NoPop(st) ==
  With(TryReadContext(PushContext(st, "limits"), "flags", Read_u8), LAMBDA flags :
    IF ~flags.ok THEN Fail(PopContext(flags.st))
    ELSE IF flags.val = Flags_NoMax
    THEN With(TryReadContext(flags.st, "min", Read_u32), LAMBDA min :
           IF ~min.ok THEN Fail(PopContext(min.st))
           ELSE Ok(PopContext(min.st), [min |-> min.val, max |-> <<>>]))
    ELSE IF flags.val = Flags_HasMax
    THEN With(TryReadContext(flags.st, "min", Read_u32), LAMBDA min :
           IF ~min.ok THEN Fail(PopContext(min.st))
           ELSE With(TryReadContext(min.st, "max", Read_u32), LAMBDA max :
                  IF ~max.ok THEN Fail(PopContext(max.st))
                  ELSE Ok(PopContext(max.st),
                          [min |-> min.val, max |-> <<max.val>>])))
    ELSE Fail(OnError(flags.st,
                "Invalid flags value: " \o ToString(flags.val))))

\* Mutant of Read_Limits: the flags byte is read without its "flags" context.
Read_Limits_NoFlagsContext(st) ==
  With(Read_u8(PushContext(st, "limits")), LAMBDA flags :
    IF ~flags.ok THEN Fail(PopContext(flags.st))
    ELSE IF flags.val = Flags_NoMax
    THEN With(TryReadContext(flags.st, "min", Read_u32), LAMBDA min :
           IF ~min.ok THEN Fail(PopContext(min.st))
           ELSE Ok(PopContext(min.st), [min |-> min.val, max |-> <<>>]))
    ELSE IF flags.val = Flags_HasMax
    THEN With(TryReadContext(flags.st, "min", Read_u32), LAMBDA min :
           IF ~min.ok THEN Fail(PopContext(min.st))
           ELSE With(TryReadContext(min.st, "max", Read_u32), LAMBDA max :
                  IF ~max.ok THEN Fail(PopContext(max.st))
                  ELSE Ok(PopContext(max.st),
                          [min |-> min.val, max |-> <<max.val>>])))
    ELSE Fail(PopContext(OnError(flags.st,
                "Invalid flags value: " \o ToString(flags.val)))))

\* Read(data, errors, Tag<Limits>); the "limits" frame is its
\* ErrorsContextGuard, popped on every return.
Read_Limits(st) ==
  With(TryReadContext(PushContext(st, "limits"), "flags", Read_u8), LAMBDA flags :
    IF ~flags.ok THEN Fail(PopContext(flags.st))
    ELSE IF flags.val = Flags_NoMax
    THEN With(TryReadContext(flags.st, "min", Read_u32), LAMBDA min :
           IF ~min.ok THEN Fail(PopContext(min.st))
           ELSE Ok(PopContext(min.st), [min |-> min.val, max |-> <<>>]))
    ELSE IF flags.val = Flags_HasMax
    THEN With(TryReadContext(flags.st, "min", Read_u32), LAMBDA min :
           IF ~min.ok THEN Fail(PopContext(min.st))
           ELSE With(TryReadContext(min.st, "max", Read_u32), LAMBDA max :
                  IF ~max.ok THEN Fail(PopContext(max.st))
                  ELSE Ok(PopContext(max.st),
                          [min |-> min.val, max |-> <<max.val>>])))
    ELSE Fail(PopContext(OnError(flags.st,
                "Invalid flags value: " \o ToString(flags.val)))))

\* Read<MemoryType>: a Limits in the context "memory type".
Read_MemoryType(st) ==
  With(Read_Limits(PushContext(st, "memory type")), LAMBDA limits :
    IF ~limits.ok THEN Fail(PopContext(limits.st))
    ELSE Ok(PopContext(limits.st), [limits |-> limits.val]))

\* Read<Memory>: a MemoryType in the context "memory".
Read_Memory(st) ==
  With(Read_MemoryType(PushContext(st, "memory")), LAMBDA memory_type :
    IF ~memory_type.ok THEN Fail(PopContext(memory_type.st))
    ELSE Ok(PopContext(memory_type.st), [type |-> memory_type.val]))

\* ReadReserved: a byte that must be 0, in the context "reserved".
ReadReserved(st) ==
  With(Read_u8(PushContext(st, "reserved")), LAMBDA reserved :
    IF ~reserved.ok THEN Fail(PopContext(reserved.st))
    ELSE IF reserved.val # 0
    THEN Fail(PopContext(OnError(reserved.st, "Expected reserved byte 0")))
    ELSE Ok(PopContext(reserved.st), reserved.val))

\* Read(data, features, errors, Tag<CopyImmediate>)
Read_CopyImmediate(st) ==
  With(ReadReserved(PushContext(st, "copy immediate")), LAMBDA src_reserved :
    IF ~src_reserved.ok THEN Fail(PopContext(src_reserved.st))
    ELSE With(ReadReserved(src_reserved.st), LAMBDA dst_reserved :
           IF ~dst_reserved.ok THEN Fail(PopContext(dst_reserved.st))
           ELSE Ok(PopContext(dst_reserved.st),
                   [src |-> src_reserved.val, dst |-> dst_reserved.val])))

\* ReadIndex(data, errors, desc): a u32 in the context desc.
ReadIndex(st, desc) == TryReadContext(st, desc, Read_u32)

\* The immediate of a constant instruction.
ReadConstantImmediate(opcode) ==
  IF opcode.val = Opcode_I32Const THEN Read_s32(opcode.st)
  ELSE ReadIndex(opcode.st, "global index")

\* Read<ConstantExpression>: one constant instruction and an End.
Read_ConstantExpression(st) ==
  With(TryReadContext(PushContext(st, "constant expression"), "opcode",
                      Read_u8), LAMBDA opcode :
    IF ~opcode.ok THEN Fail(PopContext(opcode.st))
    ELSE IF opcode.val \notin {Opcode_I32Const, Opcode_GlobalGet}
    THEN Fail(PopContext(OnError(opcode.st,
                "Illegal instruction in constant expression")))
    ELSE With(ReadConstantImmediate(opcode), LAMBDA imm :
           IF ~imm.ok THEN Fail(PopContext(imm.st))
           ELSE With(TryReadContext(imm.st, "opcode", Read_u8), LAMBDA end :
                  IF ~end.ok THEN Fail(PopContext(end.st))
                  ELSE IF end.val # Opcode_End
                  THEN Fail(PopContext(OnError(end.st,
                              "Expected end instruction")))
                  ELSE Ok(PopContext(end.st),
                          [opcode |-> opcode.val, imm |-> imm.val]))))

\* The value of a u32 when it is at most cap (below 256), and cap + 1
\* otherwise.
BvCapped(x, cap) ==
  LET low[k \in 0..8] == IF k = 8 THEN 0 ELSE x[k + 1] * Pow2(k) + low[k + 1]
  IN IF \E k \in 9..Len(x) : x[k] = 1 THEN cap + 1
     ELSE IF low[0] > cap THEN cap + 1 ELSE low[0]

\* The elements of ReadVector<Index>, left still to read.
RECURSIVE ReadIndexes(_, _, _)
ReadIndexes(st, left, acc) ==
  IF left = 0 THEN Ok(st, acc)
  ELSE With(ReadIndex(st, "index"), LAMBDA elt :
         IF ~elt.ok THEN Fail(elt.st)
         ELSE ReadIndexes(elt.st, left - 1, Append(acc, elt.val)))

\* ReadVector<Index>(data, errors, desc): a count that fits the remaining
\* bytes, then that many indexes, in the context desc.
ReadVector_Index(st, desc) ==
  With(ReadIndex(PushContext(st, desc), "count"), LAMBDA count :
    IF ~count.ok THEN Fail(PopContext(count.st))
    ELSE With(BvCapped(count.val, Len(count.st.data)), LAMBDA len :
           IF len > Len(count.st.data)
           THEN Fail(PopContext(OnError(count.st, "Count extends past end")))
           ELSE With(ReadIndexes(count.st, len, <<>>), LAMBDA elts :
                  IF ~elts.ok THEN Fail(PopContext(elts.st))
                  ELSE Ok(PopContext(elts.st), elts.val))))

\* Read(data, errors, Tag<ElementSegment>)
Read_ElementSegment(st) ==
  With(ReadIndex(PushContext(st, "element segment"), "table index"),
       LAMBDA table_index :
    IF ~table_index.ok THEN Fail(PopContext(table_index.st))
    ELSE With(TryReadContext(table_index.st, "offset",
                             Read_ConstantExpression), LAMBDA offset :
           IF ~offset.ok THEN Fail(PopContext(offset.st))
           ELSE With(ReadVector_Index(offset.st, "initializers"), LAMBDA init :
                  IF ~init.ok THEN Fail(PopContext(init.st))
                  ELSE Ok(PopContext(init.st),
                          [table_index |-> table_index.val,
                           offset |-> offset.val, init |-> init.val]))))

\* ReadLimits of the hook-based reader: reports nothing, tests bit 0 of flags.
ReadLimits(d) ==
  With(ReadVarU32(d), LAMBDA flags :
    IF ~flags.ok THEN [ok |-> FALSE, data |-> flags.data]
    ELSE With(ReadVarU32(flags.data), LAMBDA min :
           IF ~min.ok THEN [ok |-> FALSE, data |-> min.data]
           ELSE IF flags.val[1] = 1
           THEN With(ReadVarU32(min.data), LAMBDA max :
                  IF ~max.ok THEN [ok |-> FALSE, data |-> max.data]
                  ELSE [ok |-> TRUE, data |-> max.data,
                        val |-> [min |-> min.val, max |-> <<max.val>>]])
           ELSE [ok |-> TRUE, data |-> min.data,
                 val |-> [min |-> min.val, max |-> <<>>]]))

Bytes == {0, 1, 2, 11, 65, 128}
\* Every short byte sequence, and those that begin like an element segment
\* (table index 0, i32.const).
ByteInputs ==
  LET short == UNION {[1..n -> Bytes] : n \in 0..MaxBytes} IN
    short \cup {<<0, Opcode_I32Const>> \o b : b \in short}

InitRead ==
  /\ TokIdle
  /\ ToolIdle
  /\ FtmIdle
  /\ TxtIdle
  /\ orig \in ByteInputs
  /\ data = orig
  /\ context_stack = <<>>
  /\ errors = <<>>
  /\ result = [ok |-> FALSE, err |-> "none"]
  /\ lastCall = [op |-> "new"]
  /\ encoded = [kind |-> "raw"]
  /\ hook_calls = <<>>

St == [data |-> data, n |-> Len(orig), stack |-> context_stack,
       errors |-> errors]

\* The caller reads on after a success while input remains, and stops at
\* the first failure.
MayCall ==
  \/ lastCall.op \in {"new", "EnterContext"}
  \/ result.ok /\ data # <<>>

\* A top-level read call on the remaining input.
CallRead(op, r) ==
  /\ MayCall
  /\ data' = r.st.data
  /\ context_stack' = r.st.stack
  /\ errors' = r.st.errors
  /\ result' = [ok |-> r.ok, val |-> r.val]
  /\ lastCall' = [op |-> op, data |-> data, stack |-> context_stack,
                  nerr |-> Len(errors)]
  /\ UNCHANGED <<orig, encoded, hook_calls, tokVars, toolVars, ftmVars, txtVars>>

CallReadLimits == CallRead("Limits", Read_Limits(St))
CallReadMemory == CallRead("Memory", Read_Memory(St))
CallReadCopyImmediate == CallRead("CopyImmediate", Read_CopyImmediate(St))
CallReadElementSegment == CallRead("ElementSegment", Read_ElementSegment(St))

\* A call of the hook-based ReadLimits on the remaining input.
CallOldReadLimits ==
  /\ MayCall
  /\ LET r == ReadLimits(data) IN
       /\ data' = r.data
       /\ result' = IF r.ok THEN [ok |-> TRUE, val |-> r.val]
                    ELSE [ok |-> FALSE, val |-> <<>>]
  /\ lastCall' = [op |-> "ReadLimits", data |-> data, stack |-> context_stack,
                  nerr |-> Len(errors)]
  /\ UNCHANGED <<orig, context_stack, errors, encoded, hook_calls, tokVars, toolVars, ftmVars, txtVars>>

\* The caller of a read pushes a context frame of its own before the call.
EnterContext ==
  /\ Len(context_stack) < MaxDepth
  /\ lastCall.op \in {"new", "EnterContext"}
  /\ context_stack' = Append(context_stack, [pos |-> 0, desc |-> "caller"])
  /\ lastCall' = [op |-> "EnterContext"]
  /\ UNCHANGED <<orig, data, errors, result, encoded, hook_calls, tokVars, toolVars, ftmVars, txtVars>>

NextRead ==
  \/ CallReadLimits
  \/ CallReadMemory
  \/ CallReadCopyImmediate
  \/ CallReadElementSegment
  \/ CallOldReadLimits
  \/ EnterContext

SpecRead == InitRead /\ [][NextRead]_vars

(***************************************************************************)
(* Claims about the context-reporting readers.  lastCall holds the input,  *)
(* the context stack and the number of errors from before the call.        *)
(***************************************************************************)
ReadOps == {"Limits", "Memory", "CopyImmediate", "ElementSegment"}
OpLabel(op) ==
  CASE op = "Limits" -> "limits"
    [] op = "Memory" -> "memory"
    [] op = "CopyImmediate" -> "copy immediate"
    [] op = "ElementSegment" -> "element segment"
ContextLabels ==
  {"caller", "limits", "flags", "min", "max", "memory", "memory type",
   "copy immediate", "reserved", "element segment", "table index", "offset",
   "constant expression", "opcode", "global index", "initializers", "count",
   "index"}
\* Which context is opened directly inside which.
Nesting ==
  {<<"memory", "memory type">>, <<"memory type", "limits">>,
   <<"limits", "flags">>, <<"limits", "min">>, <<"limits", "max">>,
   <<"copy immediate", "reserved">>,
   <<"element segment", "table index">>, <<"element segment", "offset">>,
   <<"element segment", "initializers">>,
   <<"offset", "constant expression">>, <<"constant expression", "opcode">>,
   <<"constant expression", "global index">>,
   <<"initializers", "count">>, <<"initializers", "index">>}
StartOffset == Len(orig) - Len(lastCall.data)
LastError == errors[Len(errors)]

\* C5: after any top-level binary read call (Read<Limits>,
\* Read<CopyImmediate>, Read<ElementSegment>, Read<Memory>) returns, on
\* success and on every failure path, the context stack is what it was before
\* the call (empty when the call was top-level): every pushed frame is popped
\* exactly once.
C5_ContextStackRestored ==
  lastCall.op \in ReadOps => context_stack = lastCall.stack

C5_Witness ==
  /\ lastCall.op = "ElementSegment"
  /\ ~result.ok
  /\ Len(lastCall.stack) = 1
  /\ Len(errors) = 1
  /\ Len(errors[1]) = 6
  /\ errors[1][4].desc = "constant expression"

\* C6: when a binary read fails, the reported error carries exactly the
\* context labels on the context stack at the moment of the error, outermost
\* first, followed by the failure message; reading a Memory from empty input
\* yields exactly the trail memory, memory type, limits, flags,
\* "Unable to read u8", every entry at offset 0.
C6_ErrorTrail ==
  /\ (lastCall.op = "Memory" /\ orig = <<>> /\ lastCall.stack = <<>>) =>
       /\ ~result.ok
       /\ errors = << << [pos |-> 0, desc |-> "memory"],
                         [pos |-> 0, desc |-> "memory type"],
                         [pos |-> 0, desc |-> "limits"],
                         [pos |-> 0, desc |-> "flags"],
                         [pos |-> 0, desc |-> "Unable to read u8"] >> >>
  /\ lastCall.op \in ReadOps =>
       /\ Len(errors) = lastCall.nerr + (IF result.ok THEN 0 ELSE 1)
       /\ ~result.ok =>
            LET e == LastError
                n == Len(e)
                d == Len(lastCall.stack)
            IN /\ n >= d + 2
               /\ SubSeq(e, 1, d) = lastCall.stack
               /\ e[d + 1] = [pos |-> StartOffset, desc |-> OpLabel(lastCall.op)]
               /\ \A i \in (d + 1)..(n - 2) :
                    <<e[i].desc, e[i + 1].desc>> \in Nesting
               /\ \A i \in 1..(n - 1) : /\ e[i].desc \in ContextLabels
                                        /\ e[i].pos <= e[i + 1].pos
               /\ e[n].desc \notin ContextLabels
               /\ e[n].pos = Len(orig) - Len(data)
  /\ (lastCall.op = "Limits" /\ lastCall.data # <<>> /\ lastCall.data[1] = 2) =>
       /\ ~result.ok
       /\ LastError = lastCall.stack \o
            << [pos |-> StartOffset, desc |-> "limits"],
               [pos |-> StartOffset + 1, desc |-> "Invalid flags value: 2"] >>

C6_Witness ==
  /\ lastCall.op = "Memory"
  /\ orig = <<>>
  /\ lastCall.stack = <<>>
  /\ ~result.ok
  /\ Len(errors) = 1
  /\ Len(errors[1]) = 5

\* The flags value the hook-based ReadLimits decodes from its input.
OldFlags == ReadVarU32(lastCall.data)

\* C7: reading Limits from bytes, a flags value of 0 yields Limits with min
\* and no max, a flags value of 1 yields Limits with min and max, and every
\* other flags value (e.g. 2) yields a bad-flags error and no Limits value;
\* this holds for both limits readers, Read<Limits> and ReadLimits.
C7_FlagsDecideLimits ==
  /\ (lastCall.op = "Limits" /\ lastCall.data # <<>>) =>
       LET flags == lastCall.data[1] IN
         /\ flags \notin {0, 1} =>
              /\ ~result.ok
              /\ LastError[Len(LastError)].desc
                   = "Invalid flags value: " \o ToString(flags)
         /\ (result.ok /\ flags = 0) => result.val.max = <<>>
         /\ (result.ok /\ flags = 1) => Len(result.val.max) = 1
  /\ (lastCall.op = "ReadLimits" /\ OldFlags.ok) =>
       /\ OldFlags.val \notin {BvZero(32), BvPow(32, 0)} => ~result.ok
       /\ (result.ok /\ OldFlags.val = BvZero(32)) => result.val.max = <<>>
       /\ (result.ok /\ OldFlags.val = BvPow(32, 0)) => Len(result.val.max) = 1

\* The part of C7 that is about Read<Limits> alone.
C7_TagReaderChecksFlags ==
  (lastCall.op = "Limits" /\ lastCall.data # <<>>) =>
    LET flags == lastCall.data[1] IN
      /\ flags \notin {0, 1} =>
           /\ ~result.ok
           /\ LastError[Len(LastError)].desc
                = "Invalid flags value: " \o ToString(flags)
      /\ (result.ok /\ flags = 0) => result.val.max = <<>>
      /\ (result.ok /\ flags = 1) => Len(result.val.max) = 1

C7_TagReaderWitness ==
  /\ lastCall.op = "Limits"
  /\ lastCall.data = <<1, 1, 2>>
  /\ result.ok
  /\ Len(result.val.max) = 1

\* Unsigned order of two bit vectors of one width (least significant bit
\* first): they agree above some bit where a has 0 and b has 1, or are equal.
BvLe(a, b) ==
  \/ a = b
  \/ \E i \in 1..Len(a) :
       /\ a[i] = 0
       /\ b[i] = 1
       /\ \A j \in (i + 1)..Len(a) : a[j] = b[j]

\* C26: every Limits value the binary reader produces with a max satisfies
\* min <= max; an encoding whose max is smaller than its min yields no Limits.
C26_MinAtMostMax ==
  (lastCall.op \in {"Limits", "ReadLimits"} /\ result.ok
     /\ result.val.max # <<>>) =>
    BvLe(result.val.min, result.val.max[1])

\* What the two readers do produce: with flags 1 the two integers that follow
\* are returned as min and max as they were decoded, in whatever order.
C26_MaxAsDecoded ==
  (lastCall.op \in {"Limits", "ReadLimits"}
     /\ Len(lastCall.data) >= 3
     /\ lastCall.data[1] = 1
     /\ lastCall.data[2] < 128
     /\ lastCall.data[3] < 128) =>
    /\ result.ok
    /\ BvCapped(result.val.min, 255) = lastCall.data[2]
    /\ BvCapped(result.val.max[1], 255) = lastCall.data[3]

C26_MaxBelowMinWitness ==
  /\ lastCall.op = "Limits"
  /\ lastCall.data = <<1, 2, 1>>
  /\ result.ok
  /\ BvCapped(result.val.min, 255) = 2
  /\ BvCapped(result.val.max[1], 255) = 1

C26_OldMaxBelowMinWitness ==
  /\ lastCall.op = "ReadLimits"
  /\ lastCall.data = <<1, 2, 1>>
  /\ result.ok
  /\ ~BvLe(result.val.min, result.val.max[1])

(***************************************************************************)
(* The hook-based reader of reader-inl.h.  A reader takes and returns the  *)
(* record h = [data, errors, hooks, stopAt]: the SpanU8* data, the         *)
(* messages given to hooks.OnError, the other hook calls made, and the     *)
(* number of the hook call that answers HookResult::Stop (0 when the hooks *)
(* always answer Continue).                                                *)
(***************************************************************************)
Opcode_Block == 2
Opcode_Loop == 3
Opcode_If == 4
Opcode_Else == 5
Opcode_Try == 6
Opcode_BrTable == 14
Opcode_CallIndirect == 17
Opcode_I64Const == 66
Opcode_F32Const == 67
Opcode_F64Const == 68

\* The case labels of ReadExpr's switch, by the immediates they read.
BareOpcodes == {0, 1, Opcode_Else, 15, 26, 27} \cup (69..191)
TypeOpcodes == {Opcode_Block, Opcode_Loop, Opcode_If}
IndexOpcodes == {12, 13, 16, 32, 33, 34, Opcode_GlobalGet, 36}
MemargOpcodes == 40..62

\* hooks.OnError(message)
HookError(h, message) == [h EXCEPT !.errors = Append(@, message)]
\* Any other hook call; it answers Stop when it is call number stopAt.
HookCall(h, call) == [h EXCEPT !.hooks = Append(@, call)]
HookStops(h) == Len(h.hooks) + 1 = h.stopAt

\* A returned value, and `return {}` or `return absl::nullopt` (dflt).
HOk(h, v) == [h |-> h, ok |-> TRUE, val |-> v, dflt |-> FALSE]
HFail(h) == [h |-> h, ok |-> FALSE, val |-> <<>>, dflt |-> TRUE]

\* WASP_HOOK(call); Rest(h) is what follows the macro.
WaspHook(h, call, Rest(_)) ==
  IF HookStops(h) THEN HFail(HookCall(h, call)) ELSE Rest(HookCall(h, call))

\* WASP_READ_OR_ERROR(var, call, desc) for a call r on h.data; Rest(h, var)
\* is what follows the macro.
ReadOrError(h, r, desc, Rest(_, _)) ==
  IF ~r.ok
  THEN HFail(HookError([h EXCEPT !.data = r.data], "Unable to read " \o desc))
  ELSE Rest([h EXCEPT !.data = r.data], r.val)

\* The s32 of a one-byte LEB128 value n in -64..-1.
BvNeg(n) == [j \in 1..32 |-> IF j <= 7 THEN Bit(n + 128, j - 1) ELSE 1]
\* encoding::ValType: I32, I64, F32, F64, Anyfunc, Func, Void.
ValTypeCodes == {BvNeg(-1), BvNeg(-2), BvNeg(-3), BvNeg(-4), BvNeg(-16),
                 BvNeg(-32), BvNeg(-64)}

\* ReadValType
ReadValType(d) ==
  With(ReadVarS32(d), LAMBDA val_s32 :
    IF ~val_s32.ok THEN val_s32
    ELSE IF val_s32.val \in ValTypeCodes THEN val_s32
    ELSE [ok |-> FALSE, err |-> "nullopt", data |-> val_s32.data])

\* ReadBytes(data, N)
ReadBytesN(d, N) ==
  IF Len(d) < N THEN [ok |-> FALSE, err |-> "nullopt", data |-> d]
  ELSE [ok |-> TRUE, val |-> SubSeq(d, 1, N), data |-> SubSeq(d, N + 1, Len(d))]

\* The element loop of ReadVec<Index>.
RECURSIVE ReadVecElts(_, _, _)
ReadVecElts(d, left, acc) ==
  IF left = 0 THEN [ok |-> TRUE, val |-> acc, data |-> d]
  ELSE With(ReadVarU32(d), LAMBDA elt :
         IF ~elt.ok THEN elt
         ELSE ReadVecElts(elt.data, left - 1, Append(acc, elt.val)))

\* ReadVec<Index>(data, ReadIndex); a length beyond the remaining bytes runs
\* out of input in the loop.
ReadVec_Index(d) ==
  With(ReadVarU32(d), LAMBDA len :
    IF ~len.ok THEN len
    ELSE ReadVecElts(len.data, BvCapped(len.val, Len(len.data)), <<>>))

\* The loop of ReadExpr; start is the input of the call, from which the
\* returned Expr{SpanU8{start, len}} is cut.
RECURSIVE ReadExprLoop(_, _, _)
ReadExprLoop(h, ends_expected, start) ==
  IF ends_expected = 0
  THEN HOk(h, SubSeq(start, 1, Len(start) - Len(h.data)))
  ELSE ReadOrError(h, ReadU8(h.data), "opcode", LAMBDA h1, opcode :
    IF opcode = Opcode_End
    THEN WaspHook(h1, [hook |-> "OnOpcodeBare", opcode |-> opcode],
           LAMBDA h2 : ReadExprLoop(h2, ends_expected - 1, start))
    ELSE IF opcode \in BareOpcodes
    THEN WaspHook(h1, [hook |-> "OnOpcodeBare", opcode |-> opcode],
           LAMBDA h2 : ReadExprLoop(h2, ends_expected, start))
    ELSE IF opcode \in TypeOpcodes
    THEN ReadOrError(h1, ReadValType(h1.data), "type index", LAMBDA h2, type :
           WaspHook(h2, [hook |-> "OnOpcodeType", opcode |-> opcode],
             LAMBDA h3 : ReadExprLoop(h3, ends_expected + 1, start)))
    ELSE IF opcode \in IndexOpcodes
    THEN ReadOrError(h1, ReadVarU32(h1.data), "index", LAMBDA h2, index :
           WaspHook(h2, [hook |-> "OnOpcodeIndex", opcode |-> opcode],
             LAMBDA h3 : ReadExprLoop(h3, ends_expected, start)))
    ELSE IF opcode = Opcode_CallIndirect
    THEN ReadOrError(h1, ReadVarU32(h1.data), "index", LAMBDA h2, index :
           ReadOrError(h2, ReadU8(h2.data), "reserved", LAMBDA h3, reserved :
             WaspHook(h3, [hook |-> "OnOpcodeCallIndirect", opcode |-> opcode],
               LAMBDA h4 : ReadExprLoop(h4, ends_expected, start))))
    ELSE IF opcode = Opcode_BrTable
    THEN ReadOrError(h1, ReadVec_Index(h1.data), "br_table targets",
           LAMBDA h2, targets :
             ReadOrError(h2, ReadVarU32(h2.data), "br_table default target",
               LAMBDA h3, default_target :
                 WaspHook(h3, [hook |-> "OnOpcodeBrTable", opcode |-> opcode],
                   LAMBDA h4 : ReadExprLoop(h4, ends_expected, start))))
    ELSE IF opcode \in MemargOpcodes
    THEN ReadOrError(h1, ReadVarU32(h1.data), "alignment", LAMBDA h2, align :
           ReadOrError(h2, ReadVarU32(h2.data), "offset", LAMBDA h3, offset :
             WaspHook(h3, [hook |-> "OnOpcodeMemarg", opcode |-> opcode],
               LAMBDA h4 : ReadExprLoop(h4, ends_expected, start))))
    ELSE IF opcode = Opcode_I32Const
    THEN ReadOrError(h1, ReadVarS32(h1.data), "i32 constant", LAMBDA h2, value :
           WaspHook(h2, [hook |-> "OnOpcodeI32Const", opcode |-> opcode],
             LAMBDA h3 : ReadExprLoop(h3, ends_expected, start)))
    ELSE IF opcode = Opcode_I64Const
    THEN ReadOrError(h1, ReadVarS64(h1.data), "i64 constant", LAMBDA h2, value :
           WaspHook(h2, [hook |-> "OnOpcodeI64Const", opcode |-> opcode],
             LAMBDA h3 : ReadExprLoop(h3, ends_expected, start)))
    ELSE IF opcode = Opcode_F32Const
    THEN ReadOrError(h1, ReadBytesN(h1.data, 4), "f32 constant",
           LAMBDA h2, value :
             WaspHook(h2, [hook |-> "OnOpcodeF32Const", opcode |-> opcode],
               LAMBDA h3 : ReadExprLoop(h3, ends_expected, start)))
    ELSE IF opcode = Opcode_F64Const
    THEN ReadOrError(h1, ReadBytesN(h1.data, 8), "f64 constant",
           LAMBDA h2, value :
             WaspHook(h2, [hook |-> "OnOpcodeF64Const", opcode |-> opcode],
               LAMBDA h3 : ReadExprLoop(h3, ends_expected, start)))
    ELSE HFail(HookError(h1, "Unknown opcode " \o ToString(opcode))))

\* ReadExpr(data, hooks)
ReadExpr(h) == ReadExprLoop(h, 1, h.data)

\* Opcodes and immediates of short expressions: nop, block, if, else, try,
\* end, the void block type (which is also memory.grow's byte) and i32.const.
ExprBytes == {1, Opcode_Block, Opcode_If, Opcode_Else, Opcode_Try, Opcode_End,
              64, Opcode_I32Const}
ExprInputs == UNION {[1..n -> ExprBytes] : n \in 0..MaxExprLen}

InitExpr ==
  /\ TokIdle
  /\ ToolIdle
  /\ FtmIdle
  /\ TxtIdle
  /\ orig \in ExprInputs
  /\ data = orig
  /\ context_stack = <<>>
  /\ errors = <<>>
  /\ result = [ok |-> FALSE, err |-> "none"]
  /\ lastCall = [op |-> "new"]
  /\ encoded = [kind |-> "raw"]
  /\ hook_calls = <<>>

\* The reader record of a call whose k-th hook call answers Stop (k = 0:
\* every hook call answers Continue).
Hk(k) == [data |-> data, errors |-> errors, hooks |-> hook_calls,
          stopAt |-> IF k = 0 THEN 0 ELSE Len(hook_calls) + k]

\* The effect of a hook-based read call that returned r.
SetHk(op, k, r) ==
  /\ data' = r.h.data
  /\ errors' = r.h.errors
  /\ hook_calls' = r.h.hooks
  /\ result' = [ok |-> r.ok, val |-> r.val]
  /\ lastCall' = [op |-> op, data |-> data, nerr |-> Len(errors),
                  nhooks |-> Len(hook_calls), stop |-> k]
  /\ UNCHANGED <<orig, context_stack, encoded, tokVars, toolVars, ftmVars, txtVars>>

\* A call of ReadExpr on the remaining input.
CallReadExpr ==
  /\ lastCall.op = "new" \/ (result.ok /\ data # <<>>)
  /\ \E k \in 0..MaxStop : SetHk("ReadExpr", k, ReadExpr(Hk(k)))

NextExpr == CallReadExpr

SpecExpr == InitExpr /\ [][NextExpr]_vars

(***************************************************************************)
(* Claims about ReadExpr.  The opcodes of the instructions a call read are *)
(* the opcodes of the hook calls it made.                                  *)
(***************************************************************************)
AfterReadExpr == lastCall.op = "ReadExpr"
ExprOps ==
  [i \in 1..(Len(hook_calls) - lastCall.nhooks) |->
     hook_calls[lastCall.nhooks + i].opcode]
ExprConsumed ==
  SubSeq(lastCall.data, 1, Len(lastCall.data) - Len(data))
CountOps(ops, S) == Cardinality({i \in 1..Len(ops) : ops[i] \in S})
BlockOpening == {Opcode_Block, Opcode_Loop, Opcode_If, Opcode_Try}

\* The input with every Try byte written as Block, and ReadExpr's answer on it.
TryAsBlock(d) == [i \in 1..Len(d) |-> IF d[i] = Opcode_Try THEN Opcode_Block ELSE d[i]]
BlockAnswer ==
  ReadExpr([data |-> TryAsBlock(lastCall.data), errors |-> <<>>,
            hooks |-> <<>>, stopAt |-> 0])

\* The part of C11 that does not depend on which opcodes open a level: a
\* returned expression is the consumed bytes, ends with End and holds one End
\* more than block openers; a failure with continuing hooks reports one error
\* and returns nothing.
C11_Delimited ==
  (AfterReadExpr /\ lastCall.stop = 0) =>
    /\ result.ok =>
         /\ result.val = ExprConsumed
         /\ result.val # <<>>
         /\ result.val[Len(result.val)] = Opcode_End
         /\ CountOps(ExprOps, {Opcode_End})
              = CountOps(ExprOps, BlockOpening) + 1
         /\ Len(errors) = lastCall.nerr
    /\ ~result.ok =>
         /\ result.val = <<>>
         /\ Len(errors) = lastCall.nerr + 1
    /\ (data = <<>> /\ CountOps(ExprOps, {Opcode_End})
                         <= CountOps(ExprOps, BlockOpening)) => ~result.ok

C11_DelimitedWitness ==
  /\ AfterReadExpr
  /\ lastCall.stop = 0
  /\ result.ok
  /\ result.val = <<Opcode_Block, 64, Opcode_End, Opcode_End>>

C11_OpenLevelWitness ==
  /\ AfterReadExpr
  /\ lastCall.stop = 0
  /\ lastCall.data = <<Opcode_If, 64, Opcode_Else, Opcode_End>>
  /\ ~result.ok
  /\ errors = <<"Unable to read opcode">>

\* C11: ReadExpr reads instructions up to and including the End that closes
\* the implicit outermost block: each nested Block, Loop, If or Try opens one
\* nesting level (a Try is delimited as the same bytes with Block are) and
\* each End closes one; on success the returned expression is exactly the
\* consumed bytes, its last byte is End, and it holds one End opcode more
\* than block-opening opcodes; if the input ends while a level is still open,
\* an error is reported and no expression is returned.
C11_NestingLevels ==
  /\ C11_Delimited
  /\ (AfterReadExpr /\ lastCall.stop = 0) =>
       /\ result.ok = BlockAnswer.ok
       /\ result.ok => Len(result.val) = Len(BlockAnswer.val)

\* Whether every Else among ops has an If as the innermost open level;
\* open is the stack of the opcodes that opened the levels still open.
RECURSIVE ElseOnlyInIf(_, _)
ElseOnlyInIf(ops, open) ==
  IF ops = <<>> THEN TRUE
  ELSE LET op == Head(ops) IN
    IF op \in BlockOpening THEN ElseOnlyInIf(Tail(ops), Append(open, op))
    ELSE IF op = Opcode_End
    THEN ElseOnlyInIf(Tail(ops), IF open = <<>> THEN open
                                 ELSE SubSeq(open, 1, Len(open) - 1))
    ELSE IF op = Opcode_Else
    THEN /\ open # <<>>
         /\ open[Len(open)] = Opcode_If
         /\ ElseOnlyInIf(Tail(ops), open)
    ELSE ElseOnlyInIf(Tail(ops), open)

\* C12: when reading a binary expression, an Else opcode is accepted only
\* while the innermost open nesting level was opened by an If; an Else at the
\* outermost level or directly inside a Block or Loop makes the read fail.
C12_ElseOnlyInsideIf ==
  (AfterReadExpr /\ lastCall.stop = 0 /\ result.ok) =>
    ElseOnlyInIf(ExprOps, <<>>)

(***************************************************************************)
(* ReadSection and ReadModule.  A ReadResult is "Ok" or "Error"; the       *)
(* `return {}` of WASP_HOOK and WASP_READ_OR_ERROR, which HFail stands     *)
(* for, is the value-initialised ReadResult.                               *)
(***************************************************************************)
\* The other order of the enumerators: `return {}` would be ReadResult::Ok.
ReadResult_OkFirst == "Ok"
ReadResult_Default == "Error"

RROk(h) == [h |-> h, ok |-> TRUE, val |-> "Ok", dflt |-> FALSE]
RRError(h) == [h |-> h, ok |-> FALSE, val |-> "Error", dflt |-> FALSE]
\* The ReadResult a function returns, its `return {}` made a ReadResult.
AsReadResult(r) ==
  IF r.dflt
  THEN [r EXCEPT !.ok = (ReadResult_Default = "Ok"), !.val = ReadResult_Default,
                 !.dflt = FALSE]
  ELSE r

\* The value of a u32 that is at most 255, and 256 for every larger one.
BvSmall(x) == BvCapped(x, 255)

\* The part of ReadSection after the length was read.
ReadSectionPayload(h, code, len) ==
  IF BvCapped(len, Len(h.data)) > Len(h.data)
  THEN RRError(HookError(h, "Section length is too long"))
  ELSE WaspHook(h, [hook |-> "OnSection", opcode |-> BvSmall(code),
                    span |-> SubSeq(h.data, 1, BvSmall(len))],
         LAMBDA h1 : RROk([h1 EXCEPT !.data =
                             SubSeq(@, BvSmall(len) + 1, Len(@))]))

\* ReadSection
ReadSection(h) ==
  AsReadResult(
    ReadOrError(h, ReadVarU32(h.data), "section code", LAMBDA h1, code :
      ReadOrError(h1, ReadVarU32(h1.data), "section length", LAMBDA h2, len :
        ReadSectionPayload(h2, code, len))))

\* The while loop of ReadModule.
RECURSIVE ReadSections(_)
ReadSections(h) ==
  IF h.data = <<>> THEN RROk(h)
  ELSE With(ReadSection(h), LAMBDA r :
         IF r.val = "Error" THEN RRError(r.h) ELSE ReadSections(r.h))

kMagic == <<0, 97, 115, 109>>
kVersion == <<1, 0, 0, 0>>

\* `opt != expected` followed by the error message, which reads *opt: when
\* ReadBytes failed, *opt is the value of an empty optional, and the call
\* either aborts there or formats whatever the optional's storage holds
\* (ub chooses); used marks that the failed read's value was used.
HeaderMismatch(h, opt, what, ub) ==
  IF opt.ok
  THEN RRError(HookError([h EXCEPT !.data = opt.data], what \o " mismatch"))
         @@ [used |-> FALSE]
  ELSE IF ub = "abort"
  THEN [h |-> h, ok |-> FALSE, val |-> "aborted", dflt |-> FALSE,
        used |-> TRUE]
  ELSE RRError(HookError(h, what \o " mismatch")) @@ [used |-> TRUE]

\* ReadModule
ReadModule(h, ub) ==
  With(ReadBytesN(h.data, 4), LAMBDA opt_magic :
    IF ~opt_magic.ok \/ opt_magic.val # kMagic
    THEN HeaderMismatch(h, opt_magic, "Magic", ub)
    ELSE With(ReadBytesN(opt_magic.data, 4), LAMBDA opt_version :
      IF ~opt_version.ok \/ opt_version.val # kVersion
      THEN HeaderMismatch([h EXCEPT !.data = opt_magic.data], opt_version,
                          "Version", ub)
      ELSE ReadSections([h EXCEPT !.data = opt_version.data])
             @@ [used |-> FALSE]))

\* Module inputs: the header, whole, cut short or wrong in one byte,
\* followed by bytes that are section codes (custom, type, import, function),
\* small lengths, and the first byte of a longer LEB128 integer.
BodyBytes == {0, 1, 2, 3, 128}
Bodies(n) == UNION {[1..k -> BodyBytes] : k \in 0..n}
Headers ==
  {SubSeq(kMagic \o kVersion, 1, k) : k \in 0..8}
  \cup {<<0, 97, 115, 110>> \o kVersion, kMagic \o <<2, 0, 0, 0>>}
ModuleInputs ==
  {kMagic \o kVersion \o b : b \in Bodies(MaxBody)}
  \cup {hd \o b : <<hd, b>> \in Headers \X Bodies(1)}

InitModule ==
  /\ TokIdle
  /\ ToolIdle
  /\ FtmIdle
  /\ TxtIdle
  /\ orig \in ModuleInputs
  /\ data = orig
  /\ context_stack = <<>>
  /\ errors = <<>>
  /\ result = [ok |-> FALSE, err |-> "none"]
  /\ lastCall = [op |-> "new"]
  /\ encoded = [kind |-> "raw"]
  /\ hook_calls = <<>>

\* The effect of a read call that took its data by value and returned r:
\* the caller's span is unchanged, rest is what the call left unread.
SetHkByValue(op, k, r) ==
  /\ errors' = r.h.errors
  /\ hook_calls' = r.h.hooks
  /\ result' = [ok |-> r.ok, val |-> r.val, rest |-> r.h.data]
                 @@ (IF "used" \in DOMAIN r THEN [used |-> r.used]
                     ELSE [used |-> FALSE])
  /\ lastCall' = [op |-> op, data |-> data, nerr |-> Len(errors),
                  nhooks |-> Len(hook_calls), stop |-> k]
  /\ UNCHANGED <<orig, data, context_stack, encoded, tokVars, toolVars, ftmVars, txtVars>>

\* A call of ReadModule on the input.
CallReadModule ==
  /\ lastCall.op = "new"
  /\ \E k \in 0..MaxStop : \E ub \in {"abort", "garbage"} :
       SetHkByValue("ReadModule", k, ReadModule(Hk(k), ub))

NextModule == CallReadModule

SpecModule == InitModule /\ [][NextModule]_vars

(***************************************************************************)
(* Claims about ReadModule and ReadSection.                                *)
(***************************************************************************)
AfterReadModule == lastCall.op = "ReadModule"
\* The section codes delivered to hooks.OnSection by the last call.
SectionCodes ==
  [i \in 1..(Len(hook_calls) - lastCall.nhooks) |->
     hook_calls[lastCall.nhooks + i].opcode]
OutOfOrder(codes) ==
  \E i, j \in 1..Len(codes) : i < j /\ codes[i] # 0 /\ codes[j] # 0
                                  /\ codes[j] < codes[i]
Duplicated(codes) ==
  \E i, j \in 1..Len(codes) : i < j /\ codes[i] # 0 /\ codes[j] = codes[i]

\* C13: while reading a binary module, for every sequence of sections, a
\* non-custom section whose id is lower than an earlier non-custom section
\* causes a SectionOrder error, a non-custom section id that appears a second
\* time causes a DuplicateSection error, and custom sections (id 0) are
\* accepted at any position any number of times.
C13_SectionOrder ==
  ( /\ AfterReadModule
    /\ lastCall.stop = 0
    /\ OutOfOrder(SectionCodes) \/ Duplicated(SectionCodes) ) =>
      /\ result.val = "Error"
      /\ Len(errors) > lastCall.nerr

\* The part of C13 about custom sections: a module of custom sections only,
\* however many, is read without error.
C13_CustomAnywhere ==
  (AfterReadModule /\ lastCall.stop = 0 /\ result.val = "Ok") =>
    /\ errors = <<>>
    /\ result.rest = <<>>

C13_CustomWitness ==
  /\ AfterReadModule
  /\ result.val = "Ok"
  /\ SectionCodes = <<0, 0>>
  /\ hook_calls[1].span # <<>>

BadHeader(d) ==
  \/ Len(d) < 8
  \/ SubSeq(d, 1, 4) # kMagic
  \/ SubSeq(d, 5, 8) # kVersion

\* C15: ReadModule checks the magic and the version before reading any
\* section: for every input whose first four bytes are not 00 61 73 6D or
\* whose next four bytes are not 01 00 00 00, including every input shorter
\* than eight bytes, it reports an error, returns Error, delivers no section
\* to the hooks, and never uses the value of a read that failed.
C15_HeaderChecked ==
  (AfterReadModule /\ BadHeader(lastCall.data)) =>
    /\ result.val = "Error"
    /\ Len(errors) = lastCall.nerr + 1
    /\ hook_calls = <<>>
    /\ ~result.used

\* The part of C15 about inputs of at least eight bytes.
C15_LongBadHeader ==
  (AfterReadModule /\ BadHeader(lastCall.data) /\ Len(lastCall.data) >= 8) =>
    /\ result.val = "Error"
    /\ Len(errors) = lastCall.nerr + 1
    /\ hook_calls = <<>>
    /\ ~result.used

C15_LongBadHeaderWitness ==
  /\ AfterReadModule
  /\ lastCall.data = kMagic \o <<2, 0, 0, 0>> \o <<1>>
  /\ errors = <<"Version mismatch">>

C30_LengthWitness ==
  /\ AfterReadModule
  /\ lastCall.data = kMagic \o kVersion \o <<1>>
  /\ errors = <<"Unable to read section length">>
  /\ result.val = "Error"

C30_TooLongWitness ==
  /\ AfterReadModule
  /\ lastCall.data = kMagic \o kVersion \o <<1, 2, 0>>
  /\ errors = <<"Section length is too long">>
  /\ result.val = "Error"

(***************************************************************************)
(* ReadModule step by step: the header, then one step per turn of the      *)
(* while loop.  Here data is ReadModule's own span, result.val is          *)
(* "running" until ReadModule returns, and each call of a hook may answer  *)
(* Continue or Stop.                                                       *)
(***************************************************************************)
Running == [ok |-> FALSE, val |-> "running"]
InLoop == lastCall.op # "new" /\ result.val = "running"
Returned == lastCall.op # "new" /\ result.val \in {"Ok", "Error", "aborted"}

\* The two header checks of ReadModule.
ReadModuleHeader(h, ub) ==
  With(ReadBytesN(h.data, 4), LAMBDA opt_magic :
    IF ~opt_magic.ok \/ opt_magic.val # kMagic
    THEN HeaderMismatch(h, opt_magic, "Magic", ub)
    ELSE With(ReadBytesN(opt_magic.data, 4), LAMBDA opt_version :
      IF ~opt_version.ok \/ opt_version.val # kVersion
      THEN HeaderMismatch([h EXCEPT !.data = opt_magic.data], opt_version,
                          "Version", ub)
      ELSE [h |-> [h EXCEPT !.data = opt_version.data], ok |-> FALSE,
            val |-> "running", dflt |-> FALSE, used |-> FALSE]))

StepHeader ==
  /\ lastCall.op = "new"
  /\ \E ub \in {"abort", "garbage"} :
       With(ReadModuleHeader(Hk(0), ub), LAMBDA r :
         /\ data' = r.h.data
         /\ errors' = r.h.errors
         /\ result' = [ok |-> r.ok, val |-> r.val])
  /\ lastCall' = [op |-> "header", data |-> data]
  /\ UNCHANGED <<orig, context_stack, encoded, hook_calls, tokVars, toolVars, ftmVars, txtVars>>

\* One turn of `while (!data.empty())`: ReadSection, and the return on Error.
StepSection ==
  /\ InLoop
  /\ data # <<>>
  /\ \E stops \in BOOLEAN :
       With(ReadSection(Hk(IF stops THEN 1 ELSE 0)), LAMBDA r :
         /\ data' = r.h.data
         /\ errors' = r.h.errors
         /\ hook_calls' = r.h.hooks
         /\ result' = IF r.val = "Error" THEN [ok |-> FALSE, val |-> "Error"]
                      ELSE Running
         /\ lastCall' = [op |-> "ReadSection", data |-> data,
                         nerr |-> Len(errors), nhooks |-> Len(hook_calls),
                         stops |-> stops])
  /\ UNCHANGED <<orig, context_stack, encoded, tokVars, toolVars, ftmVars, txtVars>>

\* The loop ends on the empty span and ReadModule returns Ok.
StepReturnOk ==
  /\ InLoop
  /\ data = <<>>
  /\ result' = [ok |-> TRUE, val |-> "Ok"]
  /\ lastCall' = [op |-> "return", data |-> data]
  /\ UNCHANGED <<orig, data, context_stack, errors, encoded, hook_calls,
                 tokVars, toolVars, ftmVars, txtVars>>

NextModuleSteps == StepHeader \/ StepSection \/ StepReturnOk

SpecModuleSteps == InitModule /\ [][NextModuleSteps]_vars

\* The header of the section a turn of the loop started on, decoded on its own.
TurnCode == ReadVarU32(lastCall.data)
TurnLen == ReadVarU32(TurnCode.data)
AfterTurn == lastCall.op = "ReadSection"

C29_Witness ==
  /\ AfterTurn
  /\ result.val = "running"
  /\ ~lastCall.stops
  /\ Len(lastCall.data) - Len(data) = 4
  /\ Len(hook_calls) = 1
  /\ Len(hook_calls[1].span) = 2

\* What is left for ReadModule to do: nothing once it has returned, else the
\* bytes of the span and the steps around them.
Measure ==
  IF Returned THEN 0
  ELSE IF lastCall.op = "new" THEN Len(data) + 2
  ELSE Len(data) + 1

\* Every step of ReadModule lowers the measure, so no call takes more steps
\* than its input has bytes, plus two: ReadModule terminates.
C29_MeasureDecreases == [][Measure' < Measure]_vars

\* Once returned, nothing more happens.
C29_ReturnIsFinal == [][Returned => UNCHANGED vars]_vars

(***************************************************************************)
(* The section readers.  Each takes the payload sub-span by value.         *)
(***************************************************************************)
ValType_Func == BvNeg(-32)
ExternalKind_Func == 0
ExternalKind_Table == 1
ExternalKind_Memory == 2
ExternalKind_Global == 3
Mutability_Const == 0
Mutability_Var == 1

Nullopt(d) == [ok |-> FALSE, err |-> "nullopt", data |-> d]
Some(v, d) == [ok |-> TRUE, val |-> v, data |-> d]

\* ReadVecU8 and ReadStr: a length and that many bytes.
ReadVecU8(d) ==
  With(ReadVarU32(d), LAMBDA len :
    IF ~len.ok THEN len
    ELSE IF BvCapped(len.val, Len(len.data)) > Len(len.data)
    THEN Nullopt(len.data)
    ELSE Some(SubSeq(len.data, 1, BvSmall(len.val)),
              SubSeq(len.data, BvSmall(len.val) + 1, Len(len.data))))
ReadStr(d) == ReadVecU8(d)

\* ReadVec<ValType>(data, ReadValType)
RECURSIVE ReadValTypes(_, _, _)
ReadValTypes(d, left, acc) ==
  IF left = 0 THEN Some(acc, d)
  ELSE With(ReadValType(d), LAMBDA elt :
         IF ~elt.ok THEN elt
         ELSE ReadValTypes(elt.data, left - 1, Append(acc, elt.val)))
ReadVec_ValType(d) ==
  With(ReadVarU32(d), LAMBDA len :
    IF ~len.ok THEN len
    ELSE ReadValTypes(len.data, BvCapped(len.val, Len(len.data)), <<>>))

\* ReadExternalKind
ReadExternalKind(d) ==
  With(ReadU8(d), LAMBDA byte :
    IF ~byte.ok THEN byte
    ELSE IF byte.val \in {ExternalKind_Func, ExternalKind_Table,
                          ExternalKind_Memory, ExternalKind_Global}
    THEN byte ELSE Nullopt(byte.data))

\* ReadMutability
ReadMutability(d) ==
  With(ReadU8(d), LAMBDA byte :
    IF ~byte.ok THEN byte
    ELSE IF byte.val \in {Mutability_Var, Mutability_Const}
    THEN byte ELSE Nullopt(byte.data))

\* ReadTableType
ReadTableType(d) ==
  With(ReadValType(d), LAMBDA elemtype :
    IF ~elemtype.ok THEN elemtype
    ELSE With(ReadLimits(elemtype.data), LAMBDA limits :
           IF ~limits.ok THEN Nullopt(limits.data)
           ELSE Some([limits |-> limits.val, elemtype |-> elemtype.val],
                     limits.data)))

\* ReadMemoryType
ReadMemoryType(d) ==
  With(ReadLimits(d), LAMBDA limits :
    IF ~limits.ok THEN Nullopt(limits.data)
    ELSE Some([limits |-> limits.val], limits.data))

\* ReadGlobalType
ReadGlobalType(d) ==
  With(ReadValType(d), LAMBDA type :
    IF ~type.ok THEN type
    ELSE With(ReadMutability(type.data), LAMBDA mut :
           IF ~mut.ok THEN mut
           ELSE Some([type |-> type.val, mut |-> mut.val], mut.data)))

\* ReadExpr(&data) with its default hooks, ExprHooksNop, which drop errors.
ReadExprNop(d) ==
  With(ReadExpr([data |-> d, errors |-> <<>>, hooks |-> <<>>, stopAt |-> 0]),
       LAMBDA r : IF r.ok THEN Some(r.val, r.h.data) ELSE Nullopt(r.h.data))

\* Mutant of ErrorUnlessAtSectionEnd: bytes left in the payload are ignored.
ErrorUnlessAtSectionEnd_Ignore(h) == RROk(h)

\* ErrorUnlessAtSectionEnd
ErrorUnlessAtSectionEnd(h) ==
  IF Len(h.data) # 0 THEN RRError(HookError(h, "Expected end of section"))
  ELSE RROk(h)

\* The hook call that ends the body of a loop.
EntityHook(h, hook, i) ==
  WaspHook(h, [hook |-> hook, index |-> i], LAMBDA h1 : HOk(h1, <<>>))

\* The loop body of ReadTypeSection
TypeEntity(h, i) ==
  ReadOrError(h, ReadValType(h.data), "type form", LAMBDA h1, form :
    IF form # ValType_Func THEN RRError(HookError(h1, "Unknown type form"))
    ELSE ReadOrError(h1, ReadVec_ValType(h1.data), "param types",
           LAMBDA h2, param_types :
             ReadOrError(h2, ReadVec_ValType(h2.data), "result types",
               LAMBDA h3, result_types : EntityHook(h3, "OnFuncType", i))))

\* The loop body of ReadImportSection
ImportDesc(h, i, kind) ==
  IF kind = ExternalKind_Func
  THEN ReadOrError(h, ReadVarU32(h.data), "func type index",
         LAMBDA h1, type_index : EntityHook(h1, "OnFuncImport", i))
  ELSE IF kind = ExternalKind_Table
  THEN ReadOrError(h, ReadTableType(h.data), "table type",
         LAMBDA h1, table_type : EntityHook(h1, "OnTableImport", i))
  ELSE IF kind = ExternalKind_Memory
  THEN ReadOrError(h, ReadMemoryType(h.data), "memory type",
         LAMBDA h1, memory_type : EntityHook(h1, "OnMemoryImport", i))
  ELSE ReadOrError(h, ReadGlobalType(h.data), "global type",
         LAMBDA h1, global_type : EntityHook(h1, "OnGlobalImport", i))
ImportEntity(h, i) ==
  ReadOrError(h, ReadStr(h.data), "module name", LAMBDA h1, module :
    ReadOrError(h1, ReadStr(h1.data), "field name", LAMBDA h2, name :
      ReadOrError(h2, ReadExternalKind(h2.data), "import kind",
        LAMBDA h3, kind : ImportDesc(h3, i, kind))))

\* The loop body of ReadFunctionSection
FunctionEntity(h, i) ==
  ReadOrError(h, ReadVarU32(h.data), "func type index",
    LAMBDA h1, type_index : EntityHook(h1, "OnFunc", i))

\* The loop body of ReadTableSection
TableEntity(h, i) ==
  ReadOrError(h, ReadTableType(h.data), "table type",
    LAMBDA h1, table_type : EntityHook(h1, "OnTable", i))

\* The loop body of ReadMemorySection
MemoryEntity(h, i) ==
  ReadOrError(h, ReadMemoryType(h.data), "memory type",
    LAMBDA h1, memory_type : EntityHook(h1, "OnMemory", i))

\* The loop body of ReadGlobalSection
GlobalEntity(h, i) ==
  ReadOrError(h, ReadGlobalType(h.data), "global type", LAMBDA h1, global_type :
    ReadOrError(h1, ReadExprNop(h1.data), "global initializer expression",
      LAMBDA h2, init_expr : EntityHook(h2, "OnGlobal", i)))

\* The loop body of ReadExportSection
ExportEntity(h, i) ==
  ReadOrError(h, ReadStr(h.data), "export name", LAMBDA h1, name :
    ReadOrError(h1, ReadExternalKind(h1.data), "export kind", LAMBDA h2, kind :
      ReadOrError(h2, ReadVarU32(h2.data), "export index",
        LAMBDA h3, index : EntityHook(h3, "OnExport", i))))

\* ReadStartSection
ReadStartSection(h) ==
  AsReadResult(
    ReadOrError(h, ReadVarU32(h.data), "start function index",
      LAMBDA h1, func_index :
        WaspHook(h1, [hook |-> "OnStart", index |-> 0],
          LAMBDA h2 : ErrorUnlessAtSectionEnd(h2))))

\* The loop body of ReadElementSection
ElementEntity(h, i) ==
  ReadOrError(h, ReadVarU32(h.data), "element segment table index",
    LAMBDA h1, table_index :
      ReadOrError(h1, ReadExprNop(h1.data), "element segment offset",
        LAMBDA h2, offset :
          ReadOrError(h2, ReadVec_Index(h2.data),
                      "element segment initializers",
            LAMBDA h3, init : EntityHook(h3, "OnElementSegment", i))))

\* The loop body of ReadCodeSection
CodeEntity(h, i) ==
  ReadOrError(h, ReadVarU32(h.data), "code length", LAMBDA h1, len :
    IF BvCapped(len, Len(h1.data)) > Len(h1.data)
    THEN RRError(HookError(h1, "Code length is too long"))
    ELSE WaspHook(h1, [hook |-> "OnCode", index |-> i], LAMBDA h2 :
           HOk([h2 EXCEPT !.data = SubSeq(@, BvSmall(len) + 1, Len(@))], <<>>)))

\* The loop body of ReadDataSection
DataEntity(h, i) ==
  ReadOrError(h, ReadVarU32(h.data), "data segment table index",
    LAMBDA h1, table_index :
      ReadOrError(h1, ReadExprNop(h1.data), "data segment offset",
        LAMBDA h2, offset :
          ReadOrError(h2, ReadVecU8(h2.data), "data segment initializer",
            LAMBDA h3, init : EntityHook(h3, "OnDataSegment", i))))

\* The loop body of the section reader of the given kind.
SectionEntity(kind, h, i) ==
  CASE kind = "type" -> TypeEntity(h, i)
    [] kind = "import" -> ImportEntity(h, i)
    [] kind = "function" -> FunctionEntity(h, i)
    [] kind = "table" -> TableEntity(h, i)
    [] kind = "memory" -> MemoryEntity(h, i)
    [] kind = "global" -> GlobalEntity(h, i)
    [] kind = "export" -> ExportEntity(h, i)
    [] kind = "element" -> ElementEntity(h, i)
    [] kind = "code" -> CodeEntity(h, i)
    [] kind = "data" -> DataEntity(h, i)

\* for (Index i = 0; i < count; ++i) { body } return
\* ErrorUnlessAtSectionEnd(data, hooks); a body that returns from the reader
\* ends the loop with what it returned.
RECURSIVE SectionLoop(_, _, _, _)
SectionLoop(h, i, count, kind) ==
  IF i = count THEN ErrorUnlessAtSectionEnd(h)
  ELSE With(SectionEntity(kind, h, i), LAMBDA r :
         IF r.ok THEN SectionLoop(r.h, i + 1, count, kind) ELSE r)

\* A section of count entities: the count, its hook, the loop.  A count
\* beyond the remaining bytes runs out of input in the loop.
CountedSection(h, desc, hook, kind) ==
  AsReadResult(
    ReadOrError(h, ReadVarU32(h.data), desc, LAMBDA h1, count :
      WaspHook(h1, [hook |-> hook, count |-> BvSmall(count)], LAMBDA h2 :
        SectionLoop(h2, 0, BvCapped(count, Len(h2.data)), kind))))

ReadTypeSection(h) ==
  CountedSection(h, "type count", "OnTypeCount", "type")
ReadImportSection(h) ==
  CountedSection(h, "import count", "OnImportCount", "import")
ReadFunctionSection(h) ==
  CountedSection(h, "func count", "OnFuncCount", "function")
ReadTableSection(h) ==
  CountedSection(h, "table count", "OnTableCount", "table")
ReadMemorySection(h) ==
  CountedSection(h, "memory count", "OnMemoryCount", "memory")
ReadGlobalSection(h) ==
  CountedSection(h, "global count", "OnGlobalCount", "global")
ReadExportSection(h) ==
  CountedSection(h, "export count", "OnExportCount", "export")
ReadElementSection(h) ==
  CountedSection(h, "element segment count", "OnElementSegmentCount", "element")
ReadCodeSection(h) ==
  CountedSection(h, "code count", "OnCodeCount", "code")
ReadDataSection(h) ==
  CountedSection(h, "data segment count", "OnDataSegmentCount", "data")

\* Payloads: small counts and lengths, End, the func form and i32.
PayloadBytes == {0, 1, Opcode_End, 96, 127}
PayloadInputs == UNION {[1..n -> PayloadBytes] : n \in 0..MaxPayload}

InitSection ==
  /\ TokIdle
  /\ ToolIdle
  /\ FtmIdle
  /\ TxtIdle
  /\ orig \in PayloadInputs
  /\ data = orig
  /\ context_stack = <<>>
  /\ errors = <<>>
  /\ result = [ok |-> FALSE, err |-> "none"]
  /\ lastCall = [op |-> "new"]
  /\ encoded = [kind |-> "raw"]
  /\ hook_calls = <<>>

\* A call of a section reader on the payload.
CallSection(op, Reader(_)) ==
  /\ lastCall.op = "new"
  /\ \E k \in 0..MaxStop : SetHkByValue(op, k, Reader(Hk(k)))

CallReadTypeSection == CallSection("type", ReadTypeSection)
CallReadImportSection == CallSection("import", ReadImportSection)
CallReadFunctionSection == CallSection("function", ReadFunctionSection)
CallReadTableSection == CallSection("table", ReadTableSection)
CallReadMemorySection == CallSection("memory", ReadMemorySection)
CallReadGlobalSection == CallSection("global", ReadGlobalSection)
CallReadExportSection == CallSection("export", ReadExportSection)
CallReadStartSection == CallSection("start", ReadStartSection)
CallReadElementSection == CallSection("element", ReadElementSection)
CallReadCodeSection == CallSection("code", ReadCodeSection)
CallReadDataSection == CallSection("data", ReadDataSection)

\* A call of ReadSection on the same bytes, taken as a section.
CallReadSection ==
  /\ lastCall.op = "new"
  /\ \E k \in 0..MaxStop : SetHk("ReadSection", k, ReadSection(Hk(k)))

NextSection ==
  \/ CallReadTypeSection
  \/ CallReadImportSection
  \/ CallReadFunctionSection
  \/ CallReadTableSection
  \/ CallReadMemorySection
  \/ CallReadGlobalSection
  \/ CallReadExportSection
  \/ CallReadStartSection
  \/ CallReadElementSection
  \/ CallReadCodeSection
  \/ CallReadDataSection
  \/ CallReadSection

SpecSection == InitSection /\ [][NextSection]_vars

(***************************************************************************)
(* Claims about the section readers.  result.rest is what a reader left    *)
(* unread of its payload.                                                  *)
(***************************************************************************)
SectionKinds == {"type", "import", "function", "table", "memory", "global",
                 "export", "start", "element", "code", "data"}
AfterSectionReader == lastCall.op \in SectionKinds
\* Every declared entity was read: the hooks got the count and one call per
\* entity (the start section has its one entity and no count).
AllEntitiesRead ==
  /\ hook_calls # <<>>
  /\ IF lastCall.op = "start" THEN Len(hook_calls) = 1
     ELSE Len(hook_calls) = 1 + hook_calls[1].count

\* C14: a section whose declared payload length exceeds the bytes remaining
\* is rejected with an error, and every per-section reader reports an error
\* and returns Error when bytes of its payload sub-span remain unread after
\* the declared entities have been read; it returns Ok only when the
\* sub-span is consumed exactly.
C14_SectionConsumedExactly ==
  /\ AfterSectionReader =>
       /\ result.val \in {"Ok", "Error"}
       /\ result.val = "Ok" => (result.rest = <<>> /\ errors = <<>>
                                  /\ AllEntitiesRead)
       /\ (lastCall.stop = 0 /\ AllEntitiesRead /\ result.rest # <<>>) =>
            /\ result.val = "Error"
            /\ errors = <<"Expected end of section">>
       /\ (lastCall.stop = 0 /\ result.val = "Error") => Len(errors) = 1
  /\ ( /\ lastCall.op = "ReadSection"
       /\ Len(lastCall.data) >= 2
       /\ lastCall.data[1] < 128
       /\ lastCall.data[2] < 128 ) =>
       IF lastCall.data[2] > Len(lastCall.data) - 2
       THEN /\ result.val = "Error"
            /\ errors = <<"Section length is too long">>
            /\ hook_calls = <<>>
       ELSE /\ hook_calls = << [hook |-> "OnSection",
                                opcode |-> lastCall.data[1],
                                span |-> SubSeq(lastCall.data, 3,
                                                2 + lastCall.data[2])] >>
            /\ errors = <<>>
            /\ lastCall.stop # 1 =>
                 /\ result.val = "Ok"
                 /\ data = SubSeq(lastCall.data, 3 + lastCall.data[2],
                                  Len(lastCall.data))

C14_Witness ==
  /\ lastCall.op = "function"
  /\ lastCall.stop = 0
  /\ AllEntitiesRead
  /\ hook_calls[1].count = 1
  /\ result.rest # <<>>
  /\ result.val = "Error"

C14_ExactWitness ==
  /\ lastCall.op = "type"
  /\ lastCall.data = <<1, 96, 0, 0>>
  /\ result.val = "Ok"

C14_TooLongWitness ==
  /\ lastCall.op = "ReadSection"
  /\ lastCall.data = <<1, 1>>
  /\ result.val = "Error"

(***************************************************************************)
(* The custom tool: ExtractCustomAnnotations and Tool::Run.                *)
(* An annotation block is the sequence of its tokens, from the LparAnn     *)
(* that opens it to the Rpar that closes it.  A token is a record of its   *)
(* type, its source text and its location (block and place in the block).  *)
(***************************************************************************)
AnnTok(type, text) == [type |-> type, text |-> text]
Tok_Custom == AnnTok("LparAnn", "(@custom")
Tok_Other == AnnTok("LparAnn", "(@other")
Tok_Lpar == AnnTok("Lpar", "(")
Tok_Rpar == AnnTok("Rpar", ")")
Tok_Func == AnnTok("Func", "func")
TextTok(t) == AnnTok("Text", t)
ReservedTok(t) == AnnTok("Reserved", t)

\* The tokens of block a of the source, each with its location.
LocateAnn(a, toks) ==
  [j \in 1..Len(toks) |->
     [type |-> toks[j].type, text |-> toks[j].text, loc |-> <<a, j>>]]

LocateAnnots(v) == [a \in 1..Len(v) |-> LocateAnn(a, v[a])]

\* errors.OnError(loc, message), and the early `return ret` that follows it.
AnnError(loc, msg) == [ok |-> FALSE, err |-> [loc |-> loc, msg |-> msg]]

\* EXPECT_NOT_END(): tok_it is the index i, ann_it->end() is Len(ann) + 1.
AtEnd(ann, i) == i = Len(ann) + 1
UnexpectedEnd(ann, i) == AnnError(ann[i - 1].loc, "Unexpected end of annotation")

\* EXPECT_TOK(type_, msg) at index i; Then is what follows in the code.
ExpectTok(ann, i, type, msg, Then(_)) ==
  IF AtEnd(ann, i) THEN UnexpectedEnd(ann, i)
  ELSE IF ann[i].type # type
  THEN AnnError(ann[i].loc, "Expected " \o msg)
  ELSE Then(i)

\* The chain of comparisons that turns the anchor token into a SectionPosition.
KeywordPositions == [Type |-> "Type", Import |-> "Import", Func |-> "Function",
                     Table |-> "Table", Memory |-> "Memory", Global |-> "Global",
                     Export |-> "Export", Start |-> "Start", Elem |-> "Elem",
                     Data |-> "Data"]
ReservedPositions == [first |-> "First", code |-> "Code",
                      datacount |-> "DataCount", last |-> "Last"]

SectionPositionOf(tok) ==
  IF tok.type = "Reserved" /\ tok.text \in DOMAIN ReservedPositions
  THEN ReservedPositions[tok.text]
  ELSE IF tok.type \in DOMAIN KeywordPositions
  THEN KeywordPositions[tok.type]
  ELSE "none"

\* The placement clause: the `if (tok_it->type == Lpar)` block, entered with
\* tok_it at index i.  Answers the order, the position and where tok_it is left.
Placement_Default(i) ==
  [ok |-> TRUE, order |-> "After", pos |-> "Last", at |-> i]

ReadPlacement(ann, i) ==
  IF ann[i].type # "Lpar" THEN Placement_Default(i)
  ELSE ExpectTok(ann, i + 1, "Reserved", "after/before clause", LAMBDA j :
         IF ann[j].text \notin {"after", "before"}
         THEN AnnError(ann[j].loc, "Expected after/before clause")
         ELSE IF AtEnd(ann, j + 1) THEN UnexpectedEnd(ann, j + 1)
         ELSE IF SectionPositionOf(ann[j + 1]) = "none"
         THEN AnnError(ann[j + 1].loc, "Expected section position")
         ELSE [ok |-> TRUE,
               order |-> IF ann[j].text = "after" THEN "After" ELSE "Before",
               pos |-> SectionPositionOf(ann[j + 1]),
               at |-> j + 1])

\* The loop `for (; tok_it != ann_it->end() - 1; tok_it++)` from index i:
\* the index of the first token that is not a Text, or Len(ann) when all are.
RECURSIVE DataEnd(_, _)
DataEnd(ann, i) ==
  IF i = Len(ann) THEN i
  ELSE IF ann[i].type # "Text" THEN i
  ELSE DataEnd(ann, i + 1)

SectionData(ann, from, to) == [k \in 1..(to - from) |-> ann[from + k - 1].text]

\* A std::string_view into the source: its characters and where they are.
StringView(tok) == [text |-> tok.text, loc |-> tok.loc]

CustomAnnotation(name, sdata, order, pos) ==
  [name |-> name, data |-> sdata, order |-> order, pos |-> pos]

\* After the placement clause, with tok_it at index i: the unconditional
\* `tok_it++; EXPECT_TOK(Rpar, "location clause end")`, the data loop, the
\* emplace_back and the closing checks.  `item` is what was emplaced, if anything.
ReadData(ann, name, pl) ==
  ExpectTok(ann, pl.at + 1, "Rpar", "location clause end", LAMBDA q :
    IF AtEnd(ann, q + 1) THEN UnexpectedEnd(ann, q + 1)
    ELSE With(DataEnd(ann, q + 1), LAMBDA e :
      IF e # Len(ann)
      THEN AnnError(ann[e].loc, "Expected section data")
      ELSE With(CustomAnnotation(name, SectionData(ann, q + 1, e),
                                 pl.order, pl.pos), LAMBDA item :
        IF ann[e].type # "Rpar"
        THEN [ok |-> FALSE, item |-> item,
              err |-> [loc |-> ann[e].loc, msg |-> "Expected right parenthesis"]]
        ELSE [ok |-> TRUE, item |-> item])))

\* One turn of the loop over the custom annotations.
ReadCustomAnnotation(ann) ==
  ExpectTok(ann, 2, "Text", "section name", LAMBDA i :
    IF AtEnd(ann, i + 1) THEN UnexpectedEnd(ann, i + 1)
    ELSE With(ReadPlacement(ann, i + 1), LAMBDA pl :
      IF ~pl.ok THEN pl
      ELSE ReadData(ann, StringView(ann[i]), pl)))

\* The predicate given to std::partition.
IsCustom(ann) == ann[1].type = "LparAnn" /\ ann[1].text = "(@custom"
NotCustom(ann) == ~IsCustom(ann)

\* std::partition: the elements the predicate accepts come first, and the
\* order inside each group is unspecified.  Every such arrangement is an outcome.
IndexOrders(n) ==
  {f \in [1..n -> 1..n] : \A i, j \in 1..n : f[i] = f[j] => i = j}

Partitions(v) ==
  { [i \in 1..Len(v) |-> v[f[i]]] : f \in
      {g \in IndexOrders(Len(v)) :
         \A i, j \in 1..Len(v) :
           (i < j /\ IsCustom(v[g[i]])) => IsCustom(v[g[j]])} }

\* The algorithm that libstdc++ and libc++ run for std::partition on vector
\* iterators: two indexes close in from both ends and swap what is misplaced.
Swap(v, i, j) ==
  [k \in 1..Len(v) |-> IF k = i THEN v[j] ELSE IF k = j THEN v[i] ELSE v[k]]

RECURSIVE SkipAccepted(_, _, _)
SkipAccepted(v, first, last) ==
  IF first = last THEN first
  ELSE IF NotCustom(v[first]) THEN SkipAccepted(v, first + 1, last)
  ELSE first

RECURSIVE SkipRefused(_, _, _)
SkipRefused(v, first, last) ==
  IF first = last THEN last
  ELSE IF IsCustom(v[last]) THEN SkipRefused(v, first, last - 1)
  ELSE last

RECURSIVE TwoPointerPartition(_, _, _)
TwoPointerPartition(v, first, last) ==
  With(SkipAccepted(v, first, last), LAMBDA f :
    IF f = last THEN v
    ELSE With(SkipRefused(v, f, last - 1), LAMBDA l :
           IF f = l THEN v
           ELSE TwoPointerPartition(Swap(v, f, l), f + 1, l)))

Partition_TwoPointer(v) == TwoPointerPartition(v, 1, Len(v) + 1)

\* custom_it: the index in the partitioned vector of the first custom block.
CustomIt(v) == Cardinality({i \in 1..Len(v) : NotCustom(v[i])}) + 1

\* The for loop from ann_it = i.  An error returns at once, leaving the vector
\* partitioned but whole; the normal exit erases [custom_it, end).
RECURSIVE ExtractLoop(_, _, _)
ExtractLoop(v, i, ret) ==
  IF i > Len(v)
  THEN [annots |-> SubSeq(v, 1, CustomIt(v) - 1), ret |-> ret, errs |-> <<>>]
  ELSE With(ReadCustomAnnotation(v[i]), LAMBDA r :
         IF r.ok THEN ExtractLoop(v, i + 1, Append(ret, r.item))
         ELSE [annots |-> v,
               ret |-> IF "item" \in DOMAIN r THEN Append(ret, r.item) ELSE ret,
               errs |-> <<r.err>>])

\* ExtractCustomAnnotations(annots, errors) when std::partition left `v`.
ExtractCustomAnnotations(v) == ExtractLoop(v, CustomIt(v), <<>>)

\* errors.HasError()
HasError(errs) == errs # <<>>

\* A message reported by a stage whose code is outside this model.
StageError(stage) == [loc |-> <<0, 0>>, msg |-> stage]
StageErrors(stage, failed) == IF failed THEN <<StageError(stage)>> ELSE <<>>

\* Tool::Run up to the first test of errors.HasError(): the four calls are
\* made one after the other, whatever the earlier ones reported.
RunFrontEnd(read_fails, eof_fails, resolve_fails) ==
  [stages |-> <<"ReadSingleModule", "Expect", "Resolve", "Desugar">>,
   errs |-> StageErrors("ReadSingleModule", read_fails)
              \o StageErrors("Expect", eof_fails)
              \o StageErrors("Resolve", resolve_fails)]

\* Tool::Run, with the unspecified outcome `v` of std::partition.
ToolRun(v, read_fails, eof_fails, resolve_fails) ==
  With(RunFrontEnd(read_fails, eof_fails, resolve_fails), LAMBDA fe :
    IF HasError(fe.errs)
    THEN [stages |-> fe.stages, errs |-> fe.errs, annots |-> annots,
          customs |-> <<>>, exit |-> 1]
    ELSE With(ExtractCustomAnnotations(v), LAMBDA x :
           [stages |-> Append(fe.stages, "ExtractCustomAnnotations"),
            errs |-> x.errs, annots |-> x.annots, customs |-> x.ret,
            exit |-> IF HasError(x.errs) THEN 1 ELSE 0]))

\* ---- the annotation vectors the tool is run on
HeadTokens == {TextTok("n"), ReservedTok("after")}
ClauseTokens == {ReservedTok("after"), ReservedTok("before"), ReservedTok("last"),
                 ReservedTok("x"), Tok_Func, TextTok("a")}
DataTokens == {TextTok("a"), TextTok("b"), Tok_Lpar, Tok_Rpar}

SeqsUpTo(S, n) == UNION {[1..k -> S] : k \in 0..n}

\* Parentheses match inside a block: depth never negative, zero at the end.
RECURSIVE Depth(_, _, _)
Depth(toks, i, d) ==
  IF d < 0 THEN d
  ELSE IF i > Len(toks) THEN d
  ELSE Depth(toks, i + 1, d + (IF toks[i].type = "Lpar" THEN 1
                               ELSE IF toks[i].type = "Rpar" THEN -1 ELSE 0))
Balanced(toks) == Depth(toks, 1, 0) = 0

Heads == SeqsUpTo(HeadTokens, 1)
Clauses == {<<>>} \cup {<<Tok_Lpar>> \o c \o <<Tok_Rpar>> :
                          c \in SeqsUpTo(ClauseTokens, MaxClause)}
Datas == {d \in SeqsUpTo(DataTokens, MaxData) : Balanced(d)}

\* Every block `(@custom head clause data )`.
CustomBlocks ==
  {<<Tok_Custom>> \o h \o c \o d \o <<Tok_Rpar>> :
     h \in Heads, c \in Clauses, d \in Datas}

\* A few whole blocks, to be mixed in one source.
Block_AfterLast ==
  <<Tok_Custom, TextTok("n"), Tok_Lpar, ReservedTok("after"),
    ReservedTok("last"), Tok_Rpar, TextTok("a"), Tok_Rpar>>
Block_BeforeFunc ==
  <<Tok_Custom, TextTok("n"), Tok_Lpar, ReservedTok("before"), Tok_Func,
    Tok_Rpar, TextTok("b"), Tok_Rpar>>
Block_NoPlacement == <<Tok_Custom, TextTok("n"), TextTok("a"), Tok_Rpar>>
Block_Other == <<Tok_Other, TextTok("a"), Tok_Rpar>>
MixBlocks == {Block_AfterLast, Block_BeforeFunc, Block_NoPlacement, Block_Other}

AnnotInputs ==
  {LocateAnnots(<<b>>) : b \in CustomBlocks}
    \cup {LocateAnnots(v) : v \in SeqsUpTo(MixBlocks, MaxAnnots)}

InitTool ==
  /\ TokIdle
  /\ BinIdle
  /\ FtmIdle
  /\ TxtIdle
  /\ annots \in AnnotInputs
  /\ text_errors = <<>>
  /\ customs = <<>>
  /\ stages_run = <<>>
  /\ exit_code = -1
  /\ toolCall = [op |-> "new"]

\* A direct call of ExtractCustomAnnotations(annots, errors).
CallExtractCustomAnnotations ==
  /\ toolCall.op = "new"
  /\ \E v \in Partitions(annots) :
       With(ExtractCustomAnnotations(v), LAMBDA x :
         /\ annots' = x.annots
         /\ text_errors' = text_errors \o x.errs
         /\ customs' = x.ret
         /\ toolCall' = [op |-> "ExtractCustomAnnotations", annots |-> annots,
                         partitioned |-> v])
  /\ UNCHANGED <<stages_run, exit_code, tokVars, binVars, ftmVars, txtVars>>

\* Tool::Run on a source whose annotations are `annots`; whether the stages
\* outside this model report an error is an input.
CallRun ==
  /\ toolCall.op = "new"
  /\ \E read_fails \in BOOLEAN, eof_fails \in BOOLEAN, resolve_fails \in BOOLEAN :
       \E v \in Partitions(annots) :
         With(ToolRun(v, read_fails, eof_fails, resolve_fails), LAMBDA r :
           /\ annots' = r.annots
           /\ text_errors' = r.errs
           /\ customs' = r.customs
           /\ stages_run' = r.stages
           /\ exit_code' = r.exit
           /\ toolCall' = [op |-> "Run", annots |-> annots, partitioned |-> v,
                           read_fails |-> read_fails, eof_fails |-> eof_fails,
                           resolve_fails |-> resolve_fails])
  /\ UNCHANGED <<tokVars, binVars, ftmVars, txtVars>>

NextTool == CallExtractCustomAnnotations \/ CallRun

SpecTool == InitTool /\ [][NextTool]_vars

(***************************************************************************)
(* Claims about the custom tool.                                           *)
(***************************************************************************)
AfterRun == toolCall.op = "Run"
AfterExtract == toolCall.op = "ExtractCustomAnnotations"
Ran(stage) == \E i \in 1..Len(stages_run) : stages_run[i] = stage

\* C16: a stage of the pipeline runs only if every earlier stage reported no
\* error: after an error of the reader neither Resolve nor Desugar is run, and
\* after an error of Resolve, Desugar is not run.
C16_StagesSkippedAfterError ==
  AfterRun =>
    /\ toolCall.read_fails => ~Ran("Resolve") /\ ~Ran("Desugar")
    /\ toolCall.resolve_fails => ~Ran("Desugar")

\* The part of it the code does keep: the annotations are extracted only when
\* no earlier stage reported an error, and the exit code tells of any error.
C16_ExtractionGated ==
  AfterRun =>
    /\ Ran("ExtractCustomAnnotations") <=>
         ~(toolCall.read_fails \/ toolCall.eof_fails \/ toolCall.resolve_fails)
    /\ exit_code = 0 <=> ~HasError(text_errors)

C16_ExtractionGatedWitness ==
  /\ AfterRun
  /\ toolCall.read_fails
  /\ ~Ran("ExtractCustomAnnotations")
  /\ exit_code = 1

\* The one block a direct call was made on, and its parts.
OneBlock == toolCall.annots[1]
AllText(ann, from, to) == \A k \in from..to : ann[k].type = "Text"

\* `(@custom "name" "bytes"...)`: a name and one or more strings, no clause.
NoPlacementBlock(ann) ==
  /\ IsCustom(ann)
  /\ Len(ann) >= 4
  /\ AllText(ann, 2, Len(ann) - 1)
  /\ ann[Len(ann)].type = "Rpar"

\* `(@custom "name" (after last) "bytes"...)`, the same with the clause written.
AfterLastBlock(ann) ==
  /\ IsCustom(ann)
  /\ Len(ann) >= 8
  /\ ann[2].type = "Text"
  /\ ann[3].type = "Lpar"
  /\ ann[4].type = "Reserved" /\ ann[4].text = "after"
  /\ ann[5].type = "Reserved" /\ ann[5].text = "last"
  /\ ann[6].type = "Rpar"
  /\ AllText(ann, 7, Len(ann) - 1)
  /\ ann[Len(ann)].type = "Rpar"

\* C17: a @custom annotation with no placement clause is accepted without
\* error and yields one custom section with order After and position Last
\* whose data are all the strings after the name.
C17_MissingPlacementIsAfterLast ==
  (AfterExtract /\ Len(toolCall.annots) = 1 /\ NoPlacementBlock(OneBlock)) =>
    /\ text_errors = <<>>
    /\ customs = << CustomAnnotation(StringView(OneBlock[2]),
                                     SectionData(OneBlock, 3, Len(OneBlock)),
                                     "After", "Last") >>

\* What the code does instead: without the clause the token after the name is
\* stepped over and a `)` is demanded next, so every such block is refused.
C17_MissingPlacementRefused ==
  (AfterExtract /\ Len(toolCall.annots) = 1 /\ NoPlacementBlock(OneBlock)) =>
    /\ customs = <<>>
    /\ Len(text_errors) = 1
    /\ text_errors[1].msg \in {"Unexpected end of annotation",
                               "Expected location clause end"}

C17_MissingPlacementRefusedWitness ==
  /\ AfterExtract
  /\ Len(toolCall.annots) = 1
  /\ NoPlacementBlock(OneBlock)
  /\ Len(OneBlock) = 4
  /\ text_errors[1].msg = "Unexpected end of annotation"

\* With the clause `(after last)` written out, the block is accepted and gives
\* the section the claim describes.
C17_WrittenAfterLast ==
  (AfterExtract /\ Len(toolCall.annots) = 1 /\ AfterLastBlock(OneBlock)) =>
    /\ text_errors = <<>>
    /\ customs = << CustomAnnotation(StringView(OneBlock[2]),
                                     SectionData(OneBlock, 7, Len(OneBlock)),
                                     "After", "Last") >>
    /\ annots = <<>>

C17_WrittenAfterLastWitness ==
  /\ AfterExtract
  /\ Len(toolCall.annots) = 1
  /\ AfterLastBlock(OneBlock)
  /\ Len(customs) = 1
  /\ customs[1].data = <<"a">>

\* The source block a returned custom section was read from.
BlockOf(item) == item.name.loc[1]
CustomBlocksOf(v) == {a \in 1..Len(v) : IsCustom(v[a])}
Succeeded == AfterExtract /\ text_errors = <<>>

\* C18: ExtractCustomAnnotations returns the @custom annotations in the order
\* in which they appear in the source, whatever non-custom annotations are
\* mixed with them.
C18_SourceOrder ==
  Succeeded =>
    \A i, j \in 1..Len(customs) : i < j => BlockOf(customs[i]) < BlockOf(customs[j])

\* What does hold of a call without error: one section per @custom block is
\* returned, and the other blocks, and only they, are left in the vector.
C18_NonCustomLeft ==
  Succeeded =>
    /\ Len(customs) = Cardinality(CustomBlocksOf(toolCall.annots))
    /\ {BlockOf(customs[i]) : i \in 1..Len(customs)} = CustomBlocksOf(toolCall.annots)
    /\ Len(annots) = Len(toolCall.annots) - Len(customs)
    /\ {annots[i] : i \in 1..Len(annots)}
         = {toolCall.annots[a] : a \in (1..Len(toolCall.annots))
                                         \ CustomBlocksOf(toolCall.annots)}

C18_NonCustomLeftWitness ==
  /\ Succeeded
  /\ Len(customs) = 2
  /\ Len(annots) = 1

\* The arrangement the two-pointer algorithm produces is one of the outcomes,
\* and on two @custom blocks followed by another block it swaps the two.
C18_TwoPointerOutcome ==
  \A v \in AnnotInputs : Partition_TwoPointer(v) \in Partitions(v)

C18_TwoPointerReordersWitness ==
  /\ Succeeded
  /\ toolCall.partitioned = Partition_TwoPointer(toolCall.annots)
  /\ Len(customs) = 2
  /\ BlockOf(customs[1]) = 2
  /\ BlockOf(customs[2]) = 1

(***************************************************************************)
(* text::FunctionTypeMap: the type index space of a module, with the       *)
(* implicitly defined function types deferred until EndModule.             *)
(***************************************************************************)
ValueTypes == {"I32", "I64", "F32"}
BindingNames == {"nullopt", "$x"}

\* FunctionType{params, results}, and BoundFunctionType whose parameters may
\* carry a name.
\* The types given to the map have no parameter or one, and no result.
FunctionTypes ==
  {[params |-> ps, results |-> <<>>] :
     ps \in {<<>>} \cup {<<t>> : t \in ValueTypes}}
BoundValueTypes == {[name |-> n, type |-> t] : n \in BindingNames, t \in ValueTypes}
BoundFunctionTypes ==
  {[params |-> ps, results |-> <<>>] :
     ps \in {<<>>} \cup {<<b>> : b \in BoundValueTypes}}

\* ToFunctionType: the names are dropped, the structure is kept.
ToFunctionType(bound) ==
  [params |-> [i \in 1..Len(bound.params) |-> bound.params[i].type],
   results |-> bound.results]

\* Whether a list holds a structurally equal type.
Has(list, type) == \E i \in 1..Len(list) : list[i] = type

Ftm == [list |-> type_list, deferred |-> deferred_list]

\* FunctionTypeMap::Define: an explicit type always gets an entry of its own.
FtmDefine(m, bound) ==
  [list |-> Append(m.list, ToFunctionType(bound)), deferred |-> m.deferred]

\* FunctionTypeMap::Use of an anonymous function type, as it would be written
\* without the lookup or without the deferral.
FtmUse_NoLookup(m, type) ==
  [list |-> m.list, deferred |-> Append(m.deferred, type)]

FtmUse_NoDeferral(m, type) ==
  IF Has(m.list, type) THEN m
  ELSE [list |-> Append(m.list, type), deferred |-> m.deferred]

\* FunctionTypeMap::Use of an anonymous function type: a structurally equal
\* type already present is reused, otherwise the type is deferred.
FtmUse(m, type) ==
  IF Has(m.list, type) \/ Has(m.deferred, type) THEN m
  ELSE [list |-> m.list, deferred |-> Append(m.deferred, type)]

\* FunctionTypeMap::EndModule flushes the deferred entries.
FtmEndModule(m) == [list |-> m.list \o m.deferred, deferred |-> <<>>]

\* FunctionTypeMap::Size and FunctionTypeMap::Get
Size == Len(type_list)
Get(index) == type_list[index + 1]

InitFtm ==
  /\ TokIdle
  /\ BinIdle
  /\ ToolIdle
  /\ TxtIdle
  /\ type_list = <<>>
  /\ deferred_list = <<>>
  /\ ftm_ended = FALSE
  /\ ftm_ops = <<>>

SetFtm(m, op) ==
  /\ type_list' = m.list
  /\ deferred_list' = m.deferred
  /\ ftm_ops' = Append(ftm_ops, op)

Define ==
  /\ ~ftm_ended
  /\ Len(ftm_ops) < MaxOps
  /\ \E bound \in BoundFunctionTypes :
       SetFtm(FtmDefine(Ftm, bound),
              [op |-> "Define", type |-> ToFunctionType(bound), bound |-> bound])
  /\ UNCHANGED <<ftm_ended, tokVars, binVars, toolVars, txtVars>>

Use ==
  /\ ~ftm_ended
  /\ Len(ftm_ops) < MaxOps
  /\ \E type \in FunctionTypes :
       SetFtm(FtmUse(Ftm, type), [op |-> "Use", type |-> type])
  /\ UNCHANGED <<ftm_ended, tokVars, binVars, toolVars, txtVars>>

EndModule ==
  /\ ~ftm_ended
  /\ SetFtm(FtmEndModule(Ftm), [op |-> "EndModule"])
  /\ ftm_ended' = TRUE
  /\ UNCHANGED <<tokVars, binVars, toolVars, txtVars>>

NextFtm == Define \/ Use \/ EndModule

SpecFtm == InitFtm /\ [][NextFtm]_vars

(***************************************************************************)
(* Claims about the FunctionTypeMap.                                       *)
(***************************************************************************)
\* The indexes into ftm_ops of the calls of one kind, and the types defined.
OpsOf(kind) == {i \in 1..Len(ftm_ops) : ftm_ops[i].op = kind}
NumDefined == Cardinality(OpsOf("Define"))

RECURSIVE DefinedTypes(_)
DefinedTypes(n) ==
  IF n = 0 THEN <<>>
  ELSE IF ftm_ops[n].op = "Define"
  THEN Append(DefinedTypes(n - 1), ftm_ops[n].type)
  ELSE DefinedTypes(n - 1)

\* The first use of a type among the calls.
FirstUse(type) ==
  CHOOSE i \in OpsOf("Use") :
    /\ ftm_ops[i].type = type
    /\ \A j \in OpsOf("Use") : ftm_ops[j].type = type => i <= j

\* The entries after the explicit ones.
Implicit == SubSeq(type_list, NumDefined + 1, Len(type_list))

\* C19: after EndModule the explicitly defined types come first, in the order
\* of their definitions, and the implicitly defined ones follow in the order
\* in which they were first used; until EndModule, Size() counts the explicit
\* types only.
C19_DeferredAfterExplicit ==
  /\ ~ftm_ended => Size = NumDefined
  /\ ftm_ended =>
       /\ Size >= NumDefined
       /\ SubSeq(type_list, 1, NumDefined) = DefinedTypes(Len(ftm_ops))
       /\ \A k \in 1..Len(Implicit) :
            \E i \in OpsOf("Use") : ftm_ops[i].type = Implicit[k]
       /\ \A k, l \in 1..Len(Implicit) :
            k < l => FirstUse(Implicit[k]) < FirstUse(Implicit[l])
       /\ deferred_list = <<>>

\* A type is used, two are defined around the use, and the module ends.
C19_Witness ==
  /\ ftm_ended
  /\ Len(ftm_ops) = 4
  /\ ftm_ops[1].op = "Define"
  /\ ftm_ops[2].op = "Use"
  /\ ftm_ops[3].op = "Define"
  /\ Size = 3
  /\ Get(2) = ftm_ops[2].type
  /\ Get(1) = ftm_ops[3].type

C19_TwoDeferredWitness ==
  /\ ftm_ended
  /\ NumDefined = 1
  /\ Len(Implicit) = 2

\* C20: the use of an anonymous type structurally equal to one already in the
\* map adds no entry, so the implicit entries are pairwise different and each
\* differs from every type that was in the map when it was first used; every
\* explicit definition has an entry of its own, equal structure or not.
C20_Deduplicated ==
  /\ \A k, l \in 1..Len(deferred_list) :
       k # l => deferred_list[k] # deferred_list[l]
  /\ \A k \in 1..Len(deferred_list) :
       \A i \in OpsOf("Define") :
         i < FirstUse(deferred_list[k]) => ftm_ops[i].type # deferred_list[k]
  /\ Len(type_list) + Len(deferred_list)
       <= NumDefined + Cardinality({ftm_ops[i].type : i \in OpsOf("Use")})
  /\ Len(type_list) >= NumDefined
  /\ ftm_ended => \A k, l \in 1..Len(Implicit) : k # l => Implicit[k] # Implicit[l]

\* A defined type is used twice and nothing is added.
C20_ReuseWitness ==
  /\ Len(ftm_ops) = 3
  /\ ftm_ops[1].op = "Define"
  /\ ftm_ops[1].bound.params # <<>>
  /\ ftm_ops[1].bound.params[1].name = "$x"
  /\ ftm_ops[2].op = "Use"
  /\ ftm_ops[3].op = "Use"
  /\ ftm_ops[2].type = ftm_ops[1].type
  /\ ftm_ops[3].type = ftm_ops[1].type
  /\ Size = 1
  /\ deferred_list = <<>>

\* One anonymous type is used twice and deferred once.
C20_OneImplicitWitness ==
  /\ ftm_ended
  /\ Len(ftm_ops) = 3
  /\ ftm_ops[1].op = "Use"
  /\ ftm_ops[2].op = "Use"
  /\ ftm_ops[1].type = ftm_ops[2].type
  /\ Size = 1

\* Two explicit definitions of one structure.
C20_DistinctTypesWitness ==
  /\ Len(ftm_ops) = 2
  /\ ftm_ops[1].op = "Define"
  /\ ftm_ops[2].op = "Define"
  /\ ftm_ops[1].type = ftm_ops[2].type
  /\ Size = 2
  /\ Get(0) = Get(1)

(***************************************************************************)
(* The text reader.  A source is a sequence of tokens; a token has a type, *)
(* its text, the number of blanks before it and, for a string, the number  *)
(* of bytes it decodes to.  A read function takes and returns a cursor     *)
(* c = [src, i, ctx, errs]: the tokens, the index of the next one, the     *)
(* ReadCtx and the errors reported so far.                                 *)
(***************************************************************************)
Lexeme(type, text) == [type |-> type, text |-> text, byte_size |-> 0]
Lx_Lpar == Lexeme("Lpar", "(")
Lx_Rpar == Lexeme("Rpar", ")")
Kw(text) == Lexeme("Keyword", text)
IdTok(text) == Lexeme("Id", text)
NatTok(text) == Lexeme("Nat", text)
StringTok(text, n) == [type |-> "Text", text |-> text, byte_size |-> n]
Lx_Eof == Lexeme("Eof", "")

\* The blanks of the source: none before the first token, after `(` and
\* before `)`, one everywhere else.
Spaced(toks) ==
  [k \in 1..Len(toks) |->
     [type |-> toks[k].type, text |-> toks[k].text,
      byte_size |-> toks[k].byte_size,
      gap |-> IF k = 1 \/ toks[k].type = "Rpar" THEN 0
              ELSE IF toks[k - 1].type = "Lpar" THEN 0 ELSE 1]]

\* The offset in the text of token i: Location of the token's first byte.
RECURSIVE OffsetOf(_, _)
OffsetOf(src, i) ==
  IF i = 1 THEN src[1].gap
  ELSE OffsetOf(src, i - 1) + Len(src[i - 1].text) + src[i].gap

Cursor(src, ctx) == [src |-> src, i |-> 1, ctx |-> ctx, errs |-> <<>>]
Tok(c) == IF c.i <= Len(c.src) THEN c.src[c.i] ELSE Lx_Eof
TokAt(c, k) == IF c.i + k <= Len(c.src) THEN c.src[c.i + k] ELSE Lx_Eof
Here(c) == OffsetOf(c.src, c.i)
Adv(c, n) == [c EXCEPT !.i = @ + n]
\* An error channel that puts the newest error first.
ReportAt_Front(c, pos, msg) ==
  [c EXCEPT !.errs = <<[pos |-> pos, msg |-> msg]>> \o @]
\* errors.OnError(loc, message)
ReportAt(c, pos, msg) ==
  [c EXCEPT !.errs = Append(@, [pos |-> pos, msg |-> msg])]
IsKw(tok, text) == tok.type = "Keyword" /\ tok.text = text
\* tokenizer.MatchLpar(keyword) would succeed
AtLparKw(c, text) == Tok(c).type = "Lpar" /\ IsKw(TokAt(c, 1), text)

\* Everything up to and including the `)` that closes the open form.
RECURSIVE SkipToClose(_, _)
SkipToClose(c, depth) ==
  IF c.i > Len(c.src) THEN c
  ELSE IF Tok(c).type = "Lpar" THEN SkipToClose(Adv(c, 1), depth + 1)
  ELSE IF Tok(c).type = "Rpar"
  THEN IF depth = 0 THEN Adv(c, 1) ELSE SkipToClose(Adv(c, 1), depth - 1)
  ELSE SkipToClose(Adv(c, 1), depth)

\* ---- NameMap: the names bound in one index space, each with its index,
\* and the index the next object of the space gets.
NameMap_Empty == [map |-> {}, next |-> 0]
NameMap_Has(nm, name) == \E b \in nm.map : b[1] = name
NameMap_Get(nm, name) == (CHOOSE b \in nm.map : b[1] = name)[2]
NameMap_NewBound(nm, name) ==
  [map |-> nm.map \cup {<<name, nm.next>>}, next |-> nm.next + 1]
NameMap_NewUnbound(nm) == [nm EXCEPT !.next = @ + 1]
\* NewBound without the caller's test of Has: the later binding wins.
NameMap_Rebind(nm, name) ==
  [map |-> {b \in nm.map : b[1] # name} \cup {<<name, nm.next>>},
   next |-> nm.next + 1]

NoName == "nullopt"

\* ReadBindVarOpt as it would be without the test for an earlier binding.
ReadBindVarOpt_NoCheck(c, nm) ==
  IF Tok(c).type # "Id"
  THEN [c |-> c, nm |-> NameMap_NewUnbound(nm), name |-> NoName]
  ELSE [c |-> Adv(c, 1), nm |-> NameMap_Rebind(nm, Tok(c).text),
        name |-> Tok(c).text]

\* ReadBindVarOpt(tokenizer, context, name_map): the optional name of the
\* object being defined.  A name already bound is reported and the object is
\* treated as unnamed.
ReadBindVarOpt(c, nm) ==
  IF Tok(c).type # "Id"
  THEN [c |-> c, nm |-> NameMap_NewUnbound(nm), name |-> NoName]
  ELSE IF NameMap_Has(nm, Tok(c).text)
  THEN [c |-> Adv(ReportAt(c, Here(c),
                 "Variable " \o Tok(c).text \o " is already bound to index "
                   \o ToString(NameMap_Get(nm, Tok(c).text))), 1),
        nm |-> NameMap_NewUnbound(nm), name |-> NoName]
  ELSE [c |-> Adv(c, 1), nm |-> NameMap_NewBound(nm, Tok(c).text),
        name |-> Tok(c).text]

\* ReadBindVarOpt on the NameMap of an index space of the context.
BindIn(c, space) ==
  With(ReadBindVarOpt(c, c.ctx.names[space]), LAMBDA b :
    [c |-> [b.c EXCEPT !.ctx.names[space] = b.nm], name |-> b.name])

ImportsFirst == "Imports must occur before all non-import definitions"

\* The import-order check left out.
CheckImport_Never(c, k) == c

\* The import-order check made for `(import` at token k after the cursor.
CheckImport(c, k) ==
  IF c.ctx.seen_non_import
  THEN ReportAt(c, OffsetOf(c.src, c.i + k), ImportsFirst)
  ELSE c

\* ReadInlineImportOpt: `(import "m" "n")` inside a definition.
ReadInlineImportOpt(c) ==
  IF AtLparKw(c, "import")
  THEN [c |-> Adv(CheckImport(c, 1), 5), import |-> TRUE]
  ELSE [c |-> c, import |-> FALSE]

\* ReadBoundParamList and ReadLocalList: the groups `(param $x t)` or
\* `(local $x t)` that follow, their names bound in the function's NameMap.
RECURSIVE ReadBoundList(_, _, _)
ReadBoundList(c, nm, keyword) ==
  IF ~AtLparKw(c, keyword) THEN [c |-> c, nm |-> nm]
  ELSE With(ReadBindVarOpt(Adv(c, 2), nm), LAMBDA b :
         ReadBoundList(Adv(b.c, 2), b.nm, keyword))

\* The decoded length of the strings that follow.
RECURSIVE ReadTextList(_, _)
ReadTextList(c, total) ==
  IF Tok(c).type # "Text" THEN [c |-> c, size |-> total]
  ELSE ReadTextList(Adv(c, 1), total + Tok(c).byte_size)

kPageSize == 65536

\* The limits ReadMemory gives a memory with inline data, were they counted
\* in pages: the byte length divided by the page size, rounded up.
InlineDataLimits_Pages(size) ==
  [min |-> (size + kPageSize - 1) \div kPageSize,
   max |-> <<(size + kPageSize - 1) \div kPageSize>>]

\* The limits ReadMemory gives a memory with inline data of `size` bytes.
InlineDataLimits(size) == [min |-> size, max |-> <<size>>]

\* What follows the name and the inline import in a definition.
ReadBody(c, kind, import) ==
  IF kind = "func"
  THEN With(ReadBoundList(c, NameMap_Empty, "param"), LAMBDA ps :
         With(IF import THEN ps ELSE ReadBoundList(ps.c, ps.nm, "local"),
              LAMBDA ls :
           [c |-> SkipToClose(ls.c, 0), locals |-> ls.nm, limits |-> <<>>]))
  ELSE IF kind = "memory" /\ ~import /\ AtLparKw(c, "data")
  THEN With(ReadTextList(Adv(c, 2), 0), LAMBDA d :
         [c |-> SkipToClose(SkipToClose(d.c, 0), 0), locals |-> NameMap_Empty,
          limits |-> <<InlineDataLimits(d.size)>>])
  ELSE [c |-> SkipToClose(c, 0), locals |-> NameMap_Empty, limits |-> <<>>]

\* ReadFunction and ReadMemory: `(kind $name? (import "m" "n")? ...)`.
ReadDefinition(c, kind) ==
  With(BindIn(Adv(c, 2), kind), LAMBDA b :
    With(ReadInlineImportOpt(b.c), LAMBDA imp :
      With(IF imp.import THEN imp.c
           ELSE [imp.c EXCEPT !.ctx.seen_non_import = TRUE], LAMBDA c1 :
        With(ReadBody(c1, kind, imp.import), LAMBDA body :
          [c |-> body.c,
           val |-> [kind |-> kind, name |-> b.name, import |-> imp.import,
                    locals |-> body.locals, limits |-> body.limits]]))))

\* ReadImport: `(import "m" "n" (kind $name? ...))`.
ReadImport(c) ==
  With(Adv(CheckImport(c, 1), 4), LAMBDA c1 :
    With(BindIn(Adv(c1, 2), TokAt(c1, 1).text), LAMBDA b :
      [c |-> SkipToClose(SkipToClose(b.c, 0), 0),
       val |-> [kind |-> TokAt(c1, 1).text, name |-> b.name, import |-> TRUE,
                locals |-> NameMap_Empty, limits |-> <<>>]]))

\* ReadModuleItem: the item that starts at the cursor.
ReadModuleItem(c) ==
  IF AtLparKw(c, "import") THEN ReadImport(c)
  ELSE ReadDefinition(c, TokAt(c, 1).text)

\* ---- the module items read
Kinds == {"func", "memory"}
Ids == {"$a", "$b"}
NameOpts == {<<>>} \cup {<<IdTok(n)>> : n \in Ids}
Group(keyword, name) ==
  <<Lx_Lpar, Kw(keyword)>> \o name \o <<Kw("i32"), Lx_Rpar>>
RECURSIVE Flat(_)
Flat(ss) == IF ss = <<>> THEN <<>> ELSE Head(ss) \o Flat(Tail(ss))
\* `(param ..)` groups, then `(local ..)` groups.
BinderLists ==
  {Flat(gs) : gs \in
     {g \in SeqsUpTo({Group(k, n) : k \in {"param", "local"}, n \in NameOpts},
                     MaxBinders) :
        \A i, j \in 1..Len(g) :
          (i < j /\ IsKw(g[i][2], "local")) => IsKw(g[j][2], "local")}}
TextSizes == {5, 65535, 65536}
DataTexts == {[k \in 1..Len(z) |-> StringTok("\"..\"", z[k])] :
                z \in SeqsUpTo(TextSizes, MaxTexts)}
InlineImport == <<Lx_Lpar, Kw("import"), StringTok("\"m\"", 1),
                  StringTok("\"n\"", 1), Lx_Rpar>>
\* The bodies of a definition; the longer ones are read on unnamed items.
ItemBodies(kind, n) ==
  IF kind = "func" THEN (IF n = <<>> THEN BinderLists ELSE {<<>>})
  ELSE {<<NatTok("0")>>}
       \cup (IF n = <<>>
             THEN {<<Lx_Lpar, Kw("data")>> \o d \o <<Lx_Rpar>> : d \in DataTexts}
             ELSE {})
ImportBody(kind) == IF kind = "func" THEN <<>> ELSE <<NatTok("0")>>

ItemSources ==
  UNION {
    UNION {{Spaced(<<Lx_Lpar, Kw(kind)>> \o n \o b \o <<Lx_Rpar>>) :
              b \in ItemBodies(kind, n)} : n \in NameOpts}
    \cup {Spaced(<<Lx_Lpar, Kw(kind)>> \o n \o InlineImport
                   \o ImportBody(kind) \o <<Lx_Rpar>>) : n \in NameOpts}
    \cup {Spaced(<<Lx_Lpar, Kw("import"), StringTok("\"m\"", 1),
                   StringTok("\"n\"", 1), Lx_Lpar, Kw(kind)>> \o n
                   \o ImportBody(kind) \o <<Lx_Rpar, Lx_Rpar>>) : n \in NameOpts}
    : kind \in Kinds}

\* A fresh ReadCtx.
NewContext ==
  [features |-> {}, seen_non_import |-> FALSE, items |-> 0,
   names |-> [k \in Kinds |-> NameMap_Empty]]

InitItems ==
  /\ TokIdle
  /\ BinIdle
  /\ ToolIdle
  /\ FtmIdle
  /\ source = <<>>
  /\ context = NewContext
  /\ read_errors = <<>>
  /\ parsed = <<>>
  /\ readCall = [op |-> "new"]

\* Whether an item read so far was a definition that is not an import.
IsImportItem(src) == IsKw(src[2], "import")
HasInlineImport(src) ==
  \E k \in 2..(Len(src) - 1) : src[k].type = "Lpar" /\ IsKw(src[k + 1], "import")
IsImport(src) == IsImportItem(src) \/ HasInlineImport(src)
DefinedSoFar ==
  /\ readCall.op # "new"
  /\ readCall.defined \/ ~IsImport(source)

\* A call of ReadModuleItem on the next item of the module, with the
\* context the earlier items left.
CallReadModuleItem ==
  /\ context.items < MaxItems
  /\ \E src \in ItemSources :
       With(ReadModuleItem(Cursor(src, context)), LAMBDA r :
         /\ source' = src
         /\ context' = [r.c.ctx EXCEPT !.items = @ + 1]
         /\ read_errors' = r.c.errs
         /\ parsed' = r.val
         /\ readCall' = [op |-> "ReadModuleItem", ctx |-> context,
                         left |-> Len(src) + 1 - r.c.i,
                         defined |-> DefinedSoFar])
  /\ UNCHANGED <<tokVars, binVars, toolVars, ftmVars>>

NextItems == CallReadModuleItem

SpecItems == InitItems /\ [][NextItems]_vars

(***************************************************************************)
(* Claims about the module items of the text reader.                       *)
(***************************************************************************)
AfterItem == readCall.op = "ReadModuleItem"
ErrorAt(pos, msg) == [pos |-> pos, msg |-> msg]
Reported(e) == \E i \in 1..Len(read_errors) : read_errors[i] = e
AlreadyBound(name, index) ==
  "Variable " \o name \o " is already bound to index " \o ToString(index)

\* The index space of the item in `source` and the place of its name.
ItemNameAt == IF IsImportItem(source) THEN 7 ELSE 3
ItemSpace == source[ItemNameAt - 1].text
ItemNamed == source[ItemNameAt].type = "Id"
ItemName == source[ItemNameAt].text

\* The places of the `(param` and `(local` groups of the item, in order, and
\* the number of the group at a place (the index its parameter or local gets).
GroupStarts ==
  {k \in 1..(Len(source) - 1) :
     /\ source[k].type = "Lpar"
     /\ IsKw(source[k + 1], "param") \/ IsKw(source[k + 1], "local")}
GroupIndex(k) == Cardinality({j \in GroupStarts : j < k})
GroupNamed(k, name) == source[k + 2].type = "Id" /\ source[k + 2].text = name
FirstGroup(k, name) ==
  /\ GroupNamed(k, name)
  /\ \A j \in GroupStarts : j < k => ~GroupNamed(j, name)

\* A NameMap binds no name twice and no two names to one index.
WellFormed(nm) ==
  /\ \A b1, b2 \in nm.map : (b1[1] = b2[1] \/ b1[2] = b2[2]) => b1 = b2
  /\ \A b \in nm.map : b[2] < nm.next

\* C21: binding a name already bound in the same index space reports
\* 'Variable <name> is already bound to index <i>' at the second occurrence,
\* <i> being the index of the first binding, which is left as it was; no
\* NameMap binds a name twice or two names to one index.
C21_DuplicateName ==
  AfterItem =>
    /\ \A k \in Kinds : WellFormed(context.names[k])
    /\ WellFormed(parsed.locals)
    /\ \A k \in Kinds : \A b \in readCall.ctx.names[k].map :
         b \in context.names[k].map
    /\ (ItemNamed /\ NameMap_Has(readCall.ctx.names[ItemSpace], ItemName)) =>
         Reported(ErrorAt(OffsetOf(source, ItemNameAt),
                          AlreadyBound(ItemName,
                            NameMap_Get(readCall.ctx.names[ItemSpace], ItemName))))
    /\ \A k1, k2 \in GroupStarts : \A n \in Ids :
         (k1 < k2 /\ FirstGroup(k1, n) /\ GroupNamed(k2, n)) =>
           /\ Reported(ErrorAt(OffsetOf(source, k2 + 2),
                               AlreadyBound(n, GroupIndex(k1))))
           /\ NameMap_Get(parsed.locals, n) = GroupIndex(k1)
    /\ \A i \in 1..Len(read_errors) :
         read_errors[i].msg # ImportsFirst =>
           \/ ItemNamed /\ read_errors[i].pos = OffsetOf(source, ItemNameAt)
           \/ \E k \in GroupStarts : read_errors[i].pos = OffsetOf(source, k + 2)

\* The second of two functions named $a, the first having index 0.
C21_Witness ==
  /\ AfterItem
  /\ context.items = 2
  /\ ItemSpace = "func"
  /\ ItemNamed
  /\ read_errors = <<ErrorAt(6, AlreadyBound("$a", 0))>>
  /\ context.names["func"] = [map |-> {<<"$a", 0>>}, next |-> 2]

\* (func (param $a i32) (local $a i32)): the parameter and the local share
\* one NameMap.
C21_ParamLocalWitness ==
  /\ AfterItem
  /\ Len(source) = 13
  /\ IsKw(source[4], "param")
  /\ IsKw(source[9], "local")
  /\ read_errors = <<ErrorAt(28, AlreadyBound("$a", 0))>>
  /\ parsed.locals = [map |-> {<<"$a", 0>>}, next |-> 2]

\* The place of the `import` keyword of an item that is an import.
ImportAt ==
  CHOOSE k \in 2..Len(source) : IsKw(source[k], "import")

\* C22: once a definition that is not an import has been read, every later
\* import, top-level or inline, is rejected with 'Imports must occur before
\* all non-import definitions'; imports before any such definition are not.
C22_ImportsFirst ==
  (AfterItem /\ IsImport(source)) =>
    /\ readCall.defined => Reported(ErrorAt(OffsetOf(source, ImportAt), ImportsFirst))
    /\ ~readCall.defined => \A i \in 1..Len(read_errors) :
                               read_errors[i].msg # ImportsFirst

\* A top-level import after a definition.
C22_Witness ==
  /\ AfterItem
  /\ IsImportItem(source)
  /\ readCall.defined
  /\ read_errors = <<ErrorAt(1, ImportsFirst)>>

\* An inline import after a definition, and an import after an import.
C22_InlineWitness ==
  /\ AfterItem
  /\ HasInlineImport(source)
  /\ readCall.defined
  /\ Len(read_errors) = 1
  /\ read_errors[1].msg = ImportsFirst
  /\ read_errors[1].pos > 1

C22_AcceptedWitness ==
  /\ AfterItem
  /\ context.items = 2
  /\ IsImport(source)
  /\ ~readCall.defined
  /\ read_errors = <<>>

\* The item in `source` is `(memory $name? (data s1 ... sk))`; the strings'
\* total decoded length.
DataAt == IF ItemNamed THEN 4 ELSE 3
HasInlineData ==
  /\ IsKw(source[2], "memory")
  /\ Len(source) > DataAt
  /\ source[DataAt].type = "Lpar"
  /\ IsKw(source[DataAt + 1], "data")
RECURSIVE SumBytes(_, _)
SumBytes(src, k) ==
  IF k > Len(src) THEN 0
  ELSE (IF src[k].type = "Text" THEN src[k].byte_size ELSE 0) + SumBytes(src, k + 1)
DataLength == SumBytes(source, DataAt + 2)

\* C27: the limits of a memory with inline data have min equal to max equal
\* to the total decoded byte length of the strings divided by the page size,
\* rounded up.
C27_LimitsInPages ==
  (AfterItem /\ HasInlineData) =>
    parsed.limits = <<InlineDataLimits_Pages(DataLength)>>

\* What the reader gives instead: min and max are the byte length itself.
C27_LimitsInBytes ==
  (AfterItem /\ HasInlineData) =>
    /\ parsed.limits = <<[min |-> DataLength, max |-> <<DataLength>>]>>
    /\ read_errors = <<>>

\* (memory (data "hello" "world")): ten bytes, limits 10 and 10, where one
\* page would hold them.
C27_TenBytesWitness ==
  /\ AfterItem
  /\ HasInlineData
  /\ DataLength = 10
  /\ parsed.limits = <<[min |-> 10, max |-> <<10>>]>>
  /\ InlineDataLimits_Pages(10).min = 1

(***************************************************************************)
(* The text reader's instructions, value types and events.  A reader takes *)
(* a cursor and returns the cursor after what it read, the instructions    *)
(* (or the value) it produced, and whether it produced them.               *)
(***************************************************************************)
VT(text) == Lexeme("ValueType", text)
Instr(op, loc) == [op |-> op, loc |-> loc]
Produced(c, out) == [c |-> c, out |-> out, ok |-> TRUE]
Failed(c, out) == [c |-> c, out |-> out, ok |-> FALSE]

\* Features: the proposals a ReadCtx can have enabled.
AllFeatures == {"exceptions", "bulk_memory", "reference_types", "simd"}
\* Features::enable_*: enabling reference types enables bulk memory with it.
EnableSet(f) ==
  IF f = "reference_types" THEN {"reference_types", "bulk_memory"} ELSE {f}

PlainOps == {"nop", "drop", "i32.add", "i32.const", "table.copy"}
BlockOps == {"block", "loop", "if", "try"}
\* The feature an opcode or a value type belongs to.
OpcodeFeature(text) ==
  IF text = "table.copy" THEN "bulk_memory"
  ELSE IF text = "try" THEN "exceptions"
  ELSE "mvp"
ValueTypeFeature(text) ==
  IF text = "v128" THEN "simd"
  ELSE IF text \in {"funcref", "anyref", "nullref"} THEN "reference_types"
  ELSE IF text = "exnref" THEN "exceptions"
  ELSE "mvp"
\* A reader that takes every feature for enabled.
HasFeature_Always(c, f) == TRUE
\* context.features.HasFeatures(..)
HasFeature(c, f) == f = "mvp" \/ f \in c.ctx.features

IsPlain(tok) == tok.type = "Keyword" /\ tok.text \in PlainOps
IsBlockOp(tok) == tok.type = "Keyword" /\ tok.text \in BlockOps
IsInstr(tok) == IsPlain(tok) \/ IsBlockOp(tok)
IsExprStart(c) == Tok(c).type = "Lpar" /\ IsInstr(TokAt(c, 1))

\* The immediates of a plain instruction: the numbers and names after it.
RECURSIVE SkipImmediates(_)
SkipImmediates(c) ==
  IF Tok(c).type \in {"Nat", "Id"} THEN SkipImmediates(Adv(c, 1)) ELSE c

\* ReadPlainInstruction: one instruction keyword and its immediates.
ReadPlainInstruction(c) ==
  IF ~HasFeature(c, OpcodeFeature(Tok(c).text))
  THEN Failed(ReportAt(c, Here(c), Tok(c).text \o " instruction not allowed"),
              <<>>)
  ELSE Produced(SkipImmediates(Adv(c, 1)), <<Instr(Tok(c).text, Here(c))>>)

\* ReadLabelOpt: the label after a block's opening keyword.
ReadLabelOpt(c) ==
  IF Tok(c).type = "Id" THEN [c |-> Adv(c, 1), label |-> <<Tok(c).text>>]
  ELSE [c |-> c, label |-> <<>>]

\* A reader that accepts any label after end, else or catch.
ReadEndLabelOpt_Any(c, label) ==
  IF Tok(c).type = "Id" THEN Adv(c, 1) ELSE c

\* ReadEndLabelOpt: the label after end, else or catch, compared with the
\* label the block was opened with.
ReadEndLabelOpt(c, label) ==
  IF Tok(c).type # "Id" THEN c
  ELSE IF label = <<>>
  THEN Adv(ReportAt(c, Here(c), "Unexpected label " \o Tok(c).text), 1)
  ELSE IF label[1] # Tok(c).text
  THEN Adv(ReportAt(c, Here(c), "Expected label " \o label[1] \o ", got "
                                  \o Tok(c).text), 1)
  ELSE Adv(c, 1)

\* The name of a token's type in a message.
TokenTypeName(tok) == IF tok.type = "Keyword" THEN tok.text ELSE tok.type

\* Expect(type): the token is consumed when it is the one expected, and
\* reported and left in place when it is not.
ExpectKw(c, text) ==
  IF IsKw(Tok(c), text) THEN Adv(c, 1)
  ELSE ReportAt(c, Here(c), "Expected " \o text \o ", got "
                              \o TokenTypeName(Tok(c)))
ExpectRpar(c) ==
  IF Tok(c).type = "Rpar" THEN Adv(c, 1)
  ELSE ReportAt(c, Here(c), "Expected Rpar, got " \o TokenTypeName(Tok(c)))

\* The order in which a folded plain instruction is emitted: head first.
Flatten_HeadFirst(head, operands) == head \o operands
\* The order in which a folded plain instruction is emitted.
Flatten(head, operands) == operands \o head

RECURSIVE ReadInstructionList(_, _)
RECURSIVE ReadExpressionList(_, _)
RECURSIVE ReadBlockInstruction(_)
RECURSIVE ReadExpression(_)

\* ReadInstruction: a plain instruction, a block instruction or a folded
\* expression.
ReadInstruction(c) ==
  IF IsPlain(Tok(c)) THEN ReadPlainInstruction(c)
  ELSE IF IsBlockOp(Tok(c)) THEN ReadBlockInstruction(c)
  ELSE ReadExpression(c)

\* ReadInstructionList: instructions up to the first token that starts none.
ReadInstructionList(c, out) ==
  IF ~(IsInstr(Tok(c)) \/ IsExprStart(c)) THEN Produced(c, out)
  ELSE With(ReadInstruction(c), LAMBDA r :
         IF r.ok THEN ReadInstructionList(r.c, out \o r.out)
         ELSE Failed(r.c, out \o r.out))

\* ReadExpressionList: folded expressions up to the first token that starts
\* none.
ReadExpressionList(c, out) ==
  IF ~IsExprStart(c) THEN Produced(c, out)
  ELSE With(ReadExpression(c), LAMBDA r :
         IF r.ok THEN ReadExpressionList(r.c, out \o r.out)
         ELSE Failed(r.c, out \o r.out))

\* The `end`, and the label after it, that close a block instruction.
ReadEnd(c, label, out) ==
  Produced(ReadEndLabelOpt(ExpectKw(c, "end"), label),
           out \o <<Instr("end", Here(c))>>)

\* The `else` or `catch` clause of a block instruction and its `end`.
ReadClause(c, keyword, label, out) ==
  With(ReadInstructionList(ReadEndLabelOpt(ExpectKw(c, keyword), label),
                           out \o <<Instr(keyword, Here(c))>>),
       LAMBDA body :
         IF body.ok THEN ReadEnd(body.c, label, body.out) ELSE body)

\* ReadBlockInstruction: `block`, `loop`, `if` or `try` with its label, its
\* instructions, its else or catch clause and its end.
ReadBlockInstruction(c) ==
  IF ~HasFeature(c, OpcodeFeature(Tok(c).text))
  THEN Failed(ReportAt(c, Here(c), Tok(c).text \o " instruction not allowed"),
              <<>>)
  ELSE With(ReadLabelOpt(Adv(c, 1)), LAMBDA l :
    With(ReadInstructionList(l.c, <<Instr(Tok(c).text, Here(c))>>),
         LAMBDA body :
      IF ~body.ok THEN body
      ELSE IF Tok(c).text = "try" \/ (Tok(c).text = "if" /\ IsKw(Tok(body.c), "else"))
      THEN ReadClause(body.c, IF Tok(c).text = "try" THEN "catch" ELSE "else",
                      l.label, body.out)
      ELSE ReadEnd(body.c, l.label, body.out)))

\* The `)` that closes a folded block form, read as its End.
ReadFoldedEnd(c, out) ==
  Produced(ExpectRpar(c), out \o <<Instr("end", Here(c))>>)

\* `(keyword instr* )`: a clause of a folded if or try; `then` emits no
\* instruction of its own.
ReadFoldedClause(c, keyword, out) ==
  With(ReadInstructionList(Adv(c, 2),
         IF keyword = "then" THEN out
         ELSE out \o <<Instr(keyword, OffsetOf(c.src, c.i + 1))>>),
       LAMBDA body :
         IF body.ok THEN Produced(ExpectRpar(body.c), body.out) ELSE body)

\* ReadExpression: a folded expression, read at its `(`.
ReadExpression(c) ==
  IF IsPlain(TokAt(c, 1))
  THEN With(ReadPlainInstruction(Adv(c, 1)), LAMBDA head :
         IF ~head.ok THEN head
         ELSE With(ReadExpressionList(head.c, <<>>), LAMBDA ops :
                IF ~ops.ok THEN ops
                ELSE Produced(ExpectRpar(ops.c), Flatten(head.out, ops.out))))
  ELSE IF ~HasFeature(c, OpcodeFeature(TokAt(c, 1).text))
  THEN Failed(ReportAt(c, OffsetOf(c.src, c.i + 1),
                       TokAt(c, 1).text \o " instruction not allowed"), <<>>)
  ELSE With(ReadLabelOpt(Adv(c, 2)), LAMBDA l :
    With(Instr(TokAt(c, 1).text, OffsetOf(c.src, c.i + 1)), LAMBDA head :
      IF TokAt(c, 1).text \in {"block", "loop"}
      THEN With(ReadInstructionList(l.c, <<head>>), LAMBDA body :
             IF body.ok THEN ReadFoldedEnd(body.c, body.out) ELSE body)
      ELSE IF TokAt(c, 1).text = "if"
      THEN With(ReadExpressionList(l.c, <<>>), LAMBDA cond :
             IF ~cond.ok THEN cond
             ELSE With(ReadFoldedClause(cond.c, "then", cond.out \o <<head>>),
                       LAMBDA th :
                    IF ~th.ok THEN th
                    ELSE IF AtLparKw(th.c, "else")
                    THEN With(ReadFoldedClause(th.c, "else", th.out), LAMBDA el :
                           IF el.ok THEN ReadFoldedEnd(el.c, el.out) ELSE el)
                    ELSE ReadFoldedEnd(th.c, th.out)))
      ELSE With(ReadInstructionList(l.c, <<head>>), LAMBDA body :
             IF ~body.ok THEN body
             ELSE With(ReadFoldedClause(body.c, "catch", body.out), LAMBDA ca :
                    IF ca.ok THEN ReadFoldedEnd(ca.c, ca.out) ELSE ca))))

\* ReadValueType: one value type keyword.
ReadValueType(c) ==
  IF ~HasFeature(c, ValueTypeFeature(Tok(c).text))
  THEN Failed(ReportAt(c, Here(c), "value type " \o Tok(c).text
                                     \o " not allowed"), <<>>)
  ELSE Produced(Adv(c, 1), <<Tok(c).text>>)

\* ReadEvent: `(event $name? ...)`.
ReadEvent(c) ==
  IF ~HasFeature(c, "exceptions")
  THEN Failed(ReportAt(c, Here(c), "Events not allowed"), <<>>)
  ELSE With(ReadBindVarOpt(Adv(c, 2), NameMap_Empty), LAMBDA b :
         Produced(SkipToClose(b.c, 0), <<[kind |-> "event", name |-> b.name]>>))

\* ReadVarList: the numbers and names that follow.
ReadVarList(c) == SkipImmediates(c)

\* ReadElementSegment without bulk memory: `(elem var? offset var*)`; with
\* it, also the passive forms `(elem funcref expr*)` and `(elem func var*)`.
ReadElementSegment(c) ==
  With(ReadVarList(Adv(c, 2)), LAMBDA c1 :
    IF HasFeature(c1, "bulk_memory") /\ Tok(c1).type \in {"ValueType", "Func"}
    THEN With(ReadExpressionList(ReadVarList(Adv(c1, 1)), <<>>), LAMBDA es :
           [es EXCEPT !.c = ExpectRpar(es.c)])
    ELSE With(IF IsExprStart(c1) THEN ReadExpression(c1)
              ELSE Produced(ReportAt(c1, Here(c1),
                              "Expected offset expression, got "
                                \o TokenTypeName(Tok(c1))), <<>>),
              LAMBDA off :
           IF ~off.ok THEN off
           ELSE Produced(ExpectRpar(ReadVarList(off.c)), off.out)))

\* ---- the texts read
Labels == {"$l", "$l2"}
LabelOpts == {<<>>} \cup {<<IdTok(l)>> : l \in Labels}
\* What a block instruction holds between its keywords.
BlockBodies ==
  {<<>>, <<Kw("nop")>>,
   <<Kw("block"), IdTok("$l2"), Kw("nop"), Kw("end"), IdTok("$l2")>>,
   <<Lx_Lpar, Kw("table.copy"), Lx_Rpar>>}
\* The else or catch clauses a block instruction can have.
BlockClauses(op) ==
  (IF op = "if" THEN {<<>>} ELSE {})
  \cup (IF op \in {"if", "try"}
        THEN {<<Kw(IF op = "if" THEN "else" ELSE "catch")>> \o l \o b :
                l \in LabelOpts, b \in BlockBodies}
        ELSE {})
  \cup (IF op \in {"block", "loop"} THEN {<<>>} ELSE {})
BlockSources ==
  UNION {{Spaced(<<Kw(op)>> \o l \o b \o cl \o <<Kw("end")>> \o e) :
            l \in LabelOpts, b \in BlockBodies, cl \in BlockClauses(op),
            e \in LabelOpts} : op \in BlockOps}

\* Folded expressions of n instructions and block forms.
FoldHeads == {<<Kw("nop")>>, <<Kw("i32.add")>>,
              <<Kw("i32.const"), NatTok("0")>>, <<Kw("table.copy")>>}
Form(keyword, inside) == <<Lx_Lpar, Kw(keyword)>> \o inside \o <<Lx_Rpar>>
RECURSIVE Forest(_)
RECURSIVE Tree(_)
Forest(n) ==
  IF n = 0 THEN {<<>>}
  ELSE UNION {{t \o f : t \in Tree(k), f \in Forest(n - k)} : k \in 1..n}
Tree(n) ==
  {<<Lx_Lpar>> \o h \o f \o <<Lx_Rpar>> : h \in FoldHeads, f \in Forest(n - 1)}
  \cup {Form(op, f) : op \in {"block", "loop"}, f \in Forest(n - 1)}
  \cup UNION {UNION {
         {Form("if", cond \o Form("then", th)) :
            cond \in Forest(a), th \in Forest(n - 1 - a)}
         \cup {Form("if", cond \o Form("then", th) \o Form("else", el)) :
                 cond \in Forest(a), th \in Forest(b), el \in Forest(n - 1 - a - b)}
         \cup (IF a + b = n - 1
               THEN {Form("try", body \o Form("catch", ca)) :
                       body \in Forest(a), ca \in Forest(b)}
               ELSE {})
         : b \in 0..(n - 1 - a)} : a \in 0..(n - 1)}
\* A folded if with its three parts and a folded try with its two, each
\* part one plain instruction.
Leaves == {<<Lx_Lpar>> \o h \o <<Lx_Rpar>> : h \in FoldHeads}
FullForms ==
  {Form("if", c \o Form("then", t) \o Form("else", e)) :
     c \in Leaves, t \in Leaves, e \in Leaves}
  \cup {Form("try", t \o Form("catch", e)) : t \in Leaves, e \in Leaves}
ExpressionSources ==
  UNION {{Spaced(t) : t \in Tree(n)} : n \in 1..MaxNodes}
  \cup {Spaced(t) : t \in FullForms}

ValueTypeSources ==
  {Spaced(<<VT(t)>>) : t \in {"i32", "i64", "f32", "f64", "v128", "funcref",
                              "anyref", "nullref", "exnref"}}
PlainSources ==
  {Spaced(s) : s \in {<<Kw("nop")>>, <<Kw("i32.const"), NatTok("0")>>,
                      <<Kw("table.copy")>>,
                      <<Kw("table.copy"), IdTok("$d"), IdTok("$s")>>}}
EventSources ==
  {Spaced(<<Lx_Lpar, Kw("event")>> \o n \o <<Lx_Rpar>>) : n \in LabelOpts}
ElementSources ==
  {Spaced(<<Lx_Lpar, Kw("elem")>> \o e \o <<Lx_Rpar>>) :
     e \in {<<VT("funcref")>>, <<Lexeme("Func", "func")>>,
            <<Lx_Lpar, Kw("nop"), Lx_Rpar>>,
            <<Lx_Lpar, Kw("nop"), Lx_Rpar, NatTok("0")>>,
            <<Lx_Lpar, Kw("table.copy"), Lx_Rpar>>}}

InitInstr == InitItems

\* No text is being read: the tokenizer of the last read is gone and the
\* errors are cleared.
Idle == source = <<>>

\* context.features.enable_*()
EnableFeature ==
  /\ Idle
  /\ \E f \in AllFeatures :
       /\ f \notin context.features
       /\ context' = [context EXCEPT !.features = @ \cup EnableSet(f)]
  /\ UNCHANGED <<source, read_errors, parsed, readCall>>
  /\ UNCHANGED <<tokVars, binVars, toolVars, ftmVars>>

\* One read of the text `src` by the reader whose result is r.
Reads(name, src, r) ==
  /\ source' = src
  /\ read_errors' = r.c.errs
  /\ parsed' = [out |-> r.out, ok |-> r.ok]
  /\ readCall' = [op |-> name, ctx |-> context, left |-> Len(src) + 1 - r.c.i]
  /\ UNCHANGED context
  /\ UNCHANGED <<tokVars, binVars, toolVars, ftmVars>>

CallReadValueType ==
  /\ Idle
  /\ \E src \in ValueTypeSources :
       Reads("ReadValueType", src, ReadValueType(Cursor(src, context)))

CallReadPlainInstruction ==
  /\ Idle
  /\ \E src \in PlainSources :
       Reads("ReadPlainInstruction", src,
             ReadPlainInstruction(Cursor(src, context)))

CallReadBlockInstruction ==
  /\ Idle
  /\ \E src \in BlockSources :
       Reads("ReadBlockInstruction", src,
             ReadBlockInstruction(Cursor(src, context)))

CallReadExpression ==
  /\ Idle
  /\ \E src \in ExpressionSources :
       Reads("ReadExpression", src, ReadExpression(Cursor(src, context)))

CallReadEvent ==
  /\ Idle
  /\ \E src \in EventSources :
       Reads("ReadEvent", src, ReadEvent(Cursor(src, context)))

CallReadTextElementSegment ==
  /\ Idle
  /\ \E src \in ElementSources :
       Reads("ReadElementSegment", src,
             ReadElementSegment(Cursor(src, context)))

\* The end of a test's read: the tokenizer goes and errors.Clear() runs.
Clear ==
  /\ ~Idle
  /\ source' = <<>>
  /\ read_errors' = <<>>
  /\ parsed' = <<>>
  /\ readCall' = [op |-> "Clear"]
  /\ UNCHANGED context
  /\ UNCHANGED <<tokVars, binVars, toolVars, ftmVars>>

NextInstr ==
  \/ EnableFeature
  \/ CallReadValueType
  \/ CallReadPlainInstruction
  \/ CallReadBlockInstruction
  \/ CallReadExpression
  \/ CallReadEvent
  \/ CallReadTextElementSegment
  \/ Clear

SpecInstr == InitInstr /\ [][NextInstr]_vars

(***************************************************************************)
(* Claims about block instructions and the order of errors.                *)
(***************************************************************************)
AfterRead(name) == readCall.op = name
\* The places in `source` of the labels written after end, else or catch.
LaterLabels ==
  {k \in 2..Len(source) :
     /\ source[k].type = "Id"
     /\ source[k - 1].type = "Keyword"
     /\ source[k - 1].text \in {"end", "else", "catch"}}
\* The place of the keyword that opens the block which the end, else or
\* catch at place j belongs to (d counts the blocks closed in between).
RECURSIVE OpenerBefore(_, _)
OpenerBefore(j, d) ==
  IF IsKw(source[j], "end") THEN OpenerBefore(j - 1, d + 1)
  ELSE IF IsBlockOp(source[j])
  THEN (IF d = 0 THEN j ELSE OpenerBefore(j - 1, d - 1))
  ELSE OpenerBefore(j - 1, d)
OpenerOf(k) == OpenerBefore(k - 2, 0)
HasOpenLabel(k) == source[OpenerOf(k) + 1].type = "Id"
OpenLabel(k) == source[OpenerOf(k) + 1].text
\* The error a later label must give, if any.
Mismatch(k) ==
  IF ~HasOpenLabel(k)
  THEN <<ErrorAt(OffsetOf(source, k), "Unexpected label " \o source[k].text)>>
  ELSE IF OpenLabel(k) # source[k].text
  THEN <<ErrorAt(OffsetOf(source, k),
                 "Expected label " \o OpenLabel(k) \o ", got " \o source[k].text)>>
  ELSE <<>>
Mismatches == {k \in LaterLabels : Mismatch(k) # <<>>}

\* C23: a label after end, else or catch must equal the opening label: with
\* an opening label that differs the reader reports 'Expected label <open>,
\* got <found>' at the later label, with no opening label 'Unexpected label
\* <found>', and an equal label gives no error.
C23_LabelsMatch ==
  (AfterRead("ReadBlockInstruction") /\ parsed.ok) =>
    /\ \A k \in Mismatches : Reported(Mismatch(k)[1])
    /\ \A i \in 1..Len(read_errors) :
         \E k \in Mismatches : read_errors[i] = Mismatch(k)[1]

\* `block end $l2`, `if $l else $l2 end $l` and `try $l catch end $l2`.
C23_Witness ==
  /\ AfterRead("ReadBlockInstruction")
  /\ Len(source) = 3
  /\ IsKw(source[1], "block")
  /\ read_errors = <<ErrorAt(10, "Unexpected label $l2")>>

C23_ElseWitness ==
  /\ AfterRead("ReadBlockInstruction")
  /\ Len(source) = 6
  /\ IsKw(source[1], "if")
  /\ source[6].text = "$l"
  /\ read_errors = <<ErrorAt(11, "Expected label $l, got $l2")>>

C23_TryWitness ==
  /\ AfterRead("ReadBlockInstruction")
  /\ Len(source) = 5
  /\ IsKw(source[1], "try")
  /\ read_errors = <<ErrorAt(17, "Expected label $l, got $l2")>>

\* `if $l3 nop else $l3 .. end $l3` with equal labels, and an inner block
\* whose end label is its own and not the outer one.
C23_EqualWitness ==
  /\ AfterRead("ReadBlockInstruction")
  /\ Cardinality(LaterLabels) = 3
  /\ parsed.ok
  /\ HasOpenLabel(Len(source))
  /\ OpenLabel(Len(source)) = "$l"
  /\ read_errors = <<>>

C24_TryWitness ==
  /\ AfterRead("ReadBlockInstruction")
  /\ Len(source) = 6
  /\ read_errors = <<ErrorAt(13, "Expected label $l, got $l2"),
                     ErrorAt(21, "Expected label $l, got $l2")>>

C24_ElemWitness ==
  /\ AfterRead("ReadElementSegment")
  /\ read_errors = <<ErrorAt(6, "Expected offset expression, got ValueType"),
                     ErrorAt(6, "Expected Rpar, got ValueType")>>

(***************************************************************************)
(* Claims about folded expressions.                                        *)
(***************************************************************************)
\* The place of the `)` that closes the `(` at place j - 1, searched from j
\* with d forms open in between.
RECURSIVE CloseAfter(_, _)
CloseAfter(j, d) ==
  IF source[j].type = "Lpar" THEN CloseAfter(j + 1, d + 1)
  ELSE IF source[j].type = "Rpar"
  THEN (IF d = 0 THEN j ELSE CloseAfter(j + 1, d - 1))
  ELSE CloseAfter(j + 1, d)
\* The place of the `)` of the folded form whose keyword is at place k.
CloseOf(k) == CloseAfter(k + 1, 0)
\* The place of the `(` of the then clause of the folded if at place k.
RECURSIVE ThenAfter(_, _)
ThenAfter(j, d) ==
  IF source[j].type = "Lpar"
  THEN (IF d = 0 /\ IsKw(source[j + 1], "then") THEN j
        ELSE ThenAfter(j + 1, d + 1))
  ELSE IF source[j].type = "Rpar" THEN ThenAfter(j + 1, d - 1)
  ELSE ThenAfter(j + 1, d)

\* What a folded text must emit, each instruction with the place in the
\* text at which it is due: a plain instruction when its form closes (after
\* its operands), `if` when its then clause opens (after its condition),
\* every other keyword where it stands, and an End where a block form closes.
Keywords(texts) ==
  {k \in 1..Len(source) : source[k].type = "Keyword" /\ source[k].text \in texts}
Due(k) ==
  IF source[k].text \in PlainOps THEN CloseOf(k)
  ELSE IF source[k].text = "if" THEN ThenAfter(k + 1, 0)
  ELSE k
Emitted ==
  {[at |-> Due(k), instr |-> Instr(source[k].text, OffsetOf(source, k))] :
     k \in Keywords(PlainOps \cup BlockOps \cup {"else", "catch"})}
  \cup {[at |-> CloseOf(k), instr |-> Instr("end", OffsetOf(source, CloseOf(k)))] :
          k \in Keywords(BlockOps)}
RECURSIVE InOrder(_)
InOrder(S) ==
  IF S = {} THEN <<>>
  ELSE With(CHOOSE x \in S : \A y \in S : x.at <= y.at, LAMBDA x :
         <<x.instr>> \o InOrder(S \ {x}))

\* C25: flattening a folded expression emits the operands first, in source
\* order and each flattened, and the head after them; a folded if emits its
\* condition, if, the then body, else, the else body and an End; a folded
\* block, loop, if or try is closed by an End located at its closing
\* parenthesis; the list holds the instructions of the input and exactly one
\* End for each folded block form.
C25_Flattened ==
  (AfterRead("ReadExpression") /\ parsed.ok) =>
    /\ parsed.out = InOrder(Emitted)
    /\ read_errors = <<>>
    /\ readCall.left = 0

\* `(i32.add (i32.const 0))`.
C25_Witness ==
  /\ AfterRead("ReadExpression")
  /\ Len(source) = 7
  /\ parsed = [ok |-> TRUE,
               out |-> <<Instr("i32.const", 10), Instr("i32.add", 1)>>]

\* `(if (nop) (then (nop)) (else (nop)))`.
C25_IfWitness ==
  /\ AfterRead("ReadExpression")
  /\ Len(source) = 18
  /\ parsed = [ok |-> TRUE,
               out |-> <<Instr("nop", 5), Instr("if", 1), Instr("nop", 17),
                         Instr("else", 24), Instr("nop", 30),
                         Instr("end", 35)>>]

\* `(try (nop) (catch (nop)))`.
C25_TryWitness ==
  /\ AfterRead("ReadExpression")
  /\ parsed = [ok |-> TRUE,
               out |-> <<Instr("try", 1), Instr("nop", 6), Instr("catch", 12),
                         Instr("nop", 19), Instr("end", 24)>>]

(***************************************************************************)
(* Claims about feature gating.                                            *)
(***************************************************************************)
\* The proposal a token of the text belongs to, for the constructs that are
\* not of the MVP.
Proposal(tok) ==
  IF tok.type = "ValueType" /\ tok.text = "v128" THEN "simd"
  ELSE IF tok.type = "ValueType" /\ tok.text \in {"funcref", "anyref", "nullref"}
  THEN "reference_types"
  ELSE IF tok.type = "ValueType" /\ tok.text = "exnref" THEN "exceptions"
  ELSE IF IsKw(tok, "table.copy") THEN "bulk_memory"
  ELSE IF IsKw(tok, "try") \/ IsKw(tok, "event") THEN "exceptions"
  ELSE "mvp"
\* The places of the constructs of the text whose proposal was not enabled
\* when it was read.
Disabled ==
  {k \in 1..Len(source) :
     Proposal(source[k]) \notin ({"mvp"} \cup readCall.ctx.features)}
FirstDisabled == CHOOSE k \in Disabled : \A j \in Disabled : k <= j
\* The error for the construct at place k: an event definition starts at its
\* parenthesis, a value type or an instruction at its keyword.
NotAllowed(k) ==
  IF IsKw(source[k], "event")
  THEN ErrorAt(OffsetOf(source, k - 1), "Events not allowed")
  ELSE IF source[k].type = "ValueType"
  THEN ErrorAt(OffsetOf(source, k),
               "value type " \o source[k].text \o " not allowed")
  ELSE ErrorAt(OffsetOf(source, k), source[k].text \o " instruction not allowed")
IsNotAllowed(e) == \E k \in 1..Len(source) : e = NotAllowed(k)
GatedReaders == {"ReadValueType", "ReadPlainInstruction", "ReadBlockInstruction",
                 "ReadExpression", "ReadEvent"}

C28_TableCopyWitness ==
  /\ AfterRead("ReadPlainInstruction")
  /\ read_errors = <<ErrorAt(0, "table.copy instruction not allowed")>>
  /\ ~parsed.ok

C28_EventWitness ==
  /\ AfterRead("ReadEvent")
  /\ Len(source) = 3
  /\ read_errors = <<ErrorAt(0, "Events not allowed")>>
  /\ ~parsed.ok

C28_TryWitness ==
  /\ AfterRead("ReadBlockInstruction")
  /\ Len(source) = 3
  /\ read_errors = <<ErrorAt(0, "try instruction not allowed")>>
  /\ ~parsed.ok

C28_FoldedTryWitness ==
  /\ AfterRead("ReadExpression")
  /\ Len(source) = 6
  /\ read_errors = <<ErrorAt(1, "try instruction not allowed")>>
  /\ ~parsed.ok

C28_OperandWitness ==
  /\ AfterRead("ReadExpression")
  /\ IsKw(source[2], "i32.add")
  /\ read_errors = <<ErrorAt(10, "table.copy instruction not allowed")>>
  /\ parsed = [ok |-> FALSE, out |-> <<>>]

\* The same texts with their features enabled, and an MVP instruction read
\* with every feature enabled.
C28_EnabledWitness ==
  /\ AfterRead("ReadPlainInstruction")
  /\ readCall.ctx.features = {"reference_types", "bulk_memory"}
  /\ parsed = [ok |-> TRUE, out |-> <<Instr("table.copy", 0)>>]
  /\ read_errors = <<>>

C28_EnabledTryWitness ==
  /\ AfterRead("ReadExpression")
  /\ readCall.ctx.features = {"exceptions"}
  /\ parsed = [ok |-> TRUE,
               out |-> <<Instr("try", 1), Instr("catch", 6), Instr("end", 12)>>]
  /\ read_errors = <<>>

C28_MvpWitness ==
  /\ AfterRead("ReadValueType")
  /\ readCall.ctx.features = AllFeatures
  /\ parsed = [ok |-> TRUE, out |-> <<"i32">>]
  /\ read_errors = <<>>

====
